---- MODULE Spec2Model ----
(***************************************************************************)
(* The layout engine of UFM-Tooling (LayoutEngine.cpp, LayoutEngine.h,     *)
(* ShapeElement.h/.cpp) as a state machine.                                *)
(*                                                                         *)
(* Numbers.  The program computes in double.  The model computes in whole  *)
(* units: sizes, margins, padding and canvas sizes are integers, for which *)
(* the sums, products, comparisons and float-to-int casts of the Grid and  *)
(* Hierarchical level computation are exactly those of the doubles.  Where *)
(* the program's double would carry a fraction (a halved width, a cosine,  *)
(* a square root, a force) the model truncates the value to a whole unit   *)
(* at the point noted next to the definition.                              *)
(***************************************************************************)
EXTENDS Integers, Sequences, FiniteSets, TLC

VARIABLES
    obj,         \* the caller's heap: element id -> ShapeElement fields
    elements,    \* the caller's collection: a sequence of ids, Null = empty pointer
    canvasSize,  \* LayoutEngine::Impl::canvasSize
    config,      \* LayoutEngine::Impl::config
    result,      \* the LayoutResult returned by the last arrangeElements
    lastOp,      \* the engine operation that produced this state
    lastArg,     \* the LayoutConfig argument of that operation, when it takes one
    configSet,   \* whether a configuration was ever written into the engine
    query        \* the arguments and the return value of the last overlap query

vars == <<obj, elements, canvasSize, config, result, lastOp, lastArg, configSet, query>>

----------------------------------------------------------------------------
(* Program constants *)

verticalSpacing == 150
spread == 200
iterations == 50
k == 100
repulsion == 5000
targetDistance == 200
dampingNum == 8
dampingDen == 10
circleInset == 100
defaultPadding == 20
defaultMargin == 50
defaultCanvasWidth == 1920
defaultCanvasHeight == 1080
defaultDrawingWidth == 100
defaultDrawingHeight == 60

Null == 0

----------------------------------------------------------------------------
(* Arithmetic of the program's expressions on whole units *)

Max(a, b) == IF a < b THEN b ELSE a
Min(a, b) == IF b < a THEN b ELSE a
Abs(a) == IF a < 0 THEN -a ELSE a

\* a / b truncated toward zero, as static_cast<int>(double) truncates (b # 0)
TruncDiv(a, b) ==
    IF (a >= 0) = (b > 0) THEN Abs(a) \div Abs(b) ELSE -(Abs(a) \div Abs(b))

\* mutant: the quotient is taken in integers, which rounds down
CeilDivRoundsDown(n, d) == n \div d

\* std::ceil(static_cast<double>(n) / d) for n >= 0, d >= 1
CeilDiv(n, d) == (n + d - 1) \div d

\* floor of the square root, by bisection on [lo, hi]
RECURSIVE IsqrtIn(_, _, _)
IsqrtIn(v, lo, hi) ==
    IF lo >= hi THEN lo
    ELSE LET mid == (lo + hi + 1) \div 2
         IN  IF mid * mid <= v THEN IsqrtIn(v, mid, hi) ELSE IsqrtIn(v, lo, mid - 1)

Isqrt(v) == IF v <= 0 THEN 0 ELSE IsqrtIn(v, 0, Min(v, 46340))

\* floor of sqrt(dx * dx + dy * dy), which lies between the longer leg and the sum
Hypot(dx, dy) == IsqrtIn(dx * dx + dy * dy, Max(Abs(dx), Abs(dy)), Abs(dx) + Abs(dy))

----------------------------------------------------------------------------
(* Shape model *)

DrawingElement(w, h, x, y) ==
    [kind |-> "Drawing", x |-> x, y |-> y, width |-> w, height |-> h,
     connector1 |-> Null, connector2 |-> Null]

RelationshipElement(c1, c2) ==
    [kind |-> "Relationship", x |-> 0, y |-> 0, width |-> 0, height |-> 0,
     connector1 |-> c1, connector2 |-> c2]

setPosition(o, id, x, y) == [o EXCEPT ![id].x = x, ![id].y = y]

----------------------------------------------------------------------------
(* Configuration and result types *)

Strategies == {"Grid", "Hierarchical", "Force", "Circular"}

LayoutConfig ==
    [strategy |-> "Grid", padding |-> defaultPadding,
     marginTop |-> defaultMargin, marginBottom |-> defaultMargin,
     marginLeft |-> defaultMargin, marginRight |-> defaultMargin,
     respectConnections |-> TRUE]

CanvasSize == [width |-> defaultCanvasWidth, height |-> defaultCanvasHeight]

LayoutResult ==
    [success |-> FALSE, errorMessage |-> "", elementsArranged |-> 0, totalArea |-> 0]

----------------------------------------------------------------------------
(* Filters *)

\* mutant: the filter keeps every non-null element, whatever its type
getDrawingElementsAnyType(o, elems) ==
    SelectSeq(elems, LAMBDA e : e # Null)

getDrawingElements(o, elems) ==
    SelectSeq(elems, LAMBDA e : e # Null /\ o[e].kind = "Drawing")

getRelationshipElements(o, elems) ==
    SelectSeq(elems, LAMBDA e : e # Null /\ o[e].kind = "Relationship")

\* mutant: the early return leaves success as the constructor set it
EmptyResultNotSet == LayoutResult

\* the result of a strategy whose Drawing subset is empty
EmptyResult == [LayoutResult EXCEPT !.success = TRUE, !.elementsArranged = 0]

RECURSIVE MaxOver(_, _, _, _)
\* the running std::max over the Drawing elements, from index i on
MaxOver(o, drawings, field, i) ==
    IF i > Len(drawings) THEN 0
    ELSE Max(o[drawings[i]][field], MaxOver(o, drawings, field, i + 1))

----------------------------------------------------------------------------
(* Grid strategy *)

\* static_cast<int>(num / den).  A zero divisor makes the double infinite or
\* NaN, whose conversion to int is undefined: the build yields the value ub.
CastQuotient(num, den, ub) == IF den = 0 THEN ub ELSE TruncDiv(num, den)

\* mutant: the refit rounds the number of rows up
GridSizingRowsRoundedUp(count, availableWidth, availableHeight, cellWidth, cellHeight, ub) ==
    LET cols0 == Max(1, CastQuotient(availableWidth, cellWidth, ub.cols))
        rows0 == (count + cols0 - 1) \div cols0
        refit == rows0 * cellHeight > availableHeight
        rows1 == Max(1, CastQuotient(availableHeight + cellHeight - 1, cellHeight, ub.rows))
        cols1 == (count + rows1 - 1) \div rows1
    IN  [firstRows |-> rows0, firstCols |-> cols0, refit |-> refit,
         rows |-> IF refit THEN rows1 ELSE rows0,
         cols |-> IF refit THEN cols1 ELSE cols0]

\* mutant: the refit caps the rows and keeps the columns of the first sizing
GridSizingKeepsCols(count, availableWidth, availableHeight, cellWidth, cellHeight, ub) ==
    LET cols0 == Max(1, CastQuotient(availableWidth, cellWidth, ub.cols))
        rows0 == (count + cols0 - 1) \div cols0
        refit == rows0 * cellHeight > availableHeight
        rows1 == Max(1, CastQuotient(availableHeight, cellHeight, ub.rows))
    IN  [firstRows |-> rows0, firstCols |-> cols0, refit |-> refit,
         rows |-> IF refit THEN rows1 ELSE rows0,
         cols |-> cols0]

\* the grid dimensions: the first sizing and, when it is too tall, the refit
GridSizing(count, availableWidth, availableHeight, cellWidth, cellHeight, ub) ==
    LET cols0 == Max(1, CastQuotient(availableWidth, cellWidth, ub.cols))
        rows0 == CeilDiv(count, cols0)
        refit == rows0 * cellHeight > availableHeight
        rows1 == Max(1, CastQuotient(availableHeight, cellHeight, ub.rows))
        cols1 == CeilDiv(count, rows1)
    IN  [firstRows |-> rows0, firstCols |-> cols0, refit |-> refit,
         rows |-> IF refit THEN rows1 ELSE rows0,
         cols |-> IF refit THEN cols1 ELSE cols0]

RECURSIVE GridPlaceByIndex(_, _, _, _, _, _, _, _, _)
\* mutant: x is stepped by the running index instead of the column
GridPlaceByIndex(o, drawings, cfg, g, cellWidth, cellHeight, row, col, index) ==
    IF row >= g.rows \/ index >= Len(drawings) THEN o
    ELSE IF col >= g.cols
         THEN GridPlaceByIndex(o, drawings, cfg, g, cellWidth, cellHeight, row + 1, 0, index)
    ELSE LET x == cfg.marginLeft + index * cellWidth
             y == cfg.marginTop + row * cellHeight
         IN  GridPlaceByIndex(setPosition(o, drawings[index + 1], x, y), drawings, cfg, g,
                              cellWidth, cellHeight, row, col + 1, index + 1)

RECURSIVE GridPlace(_, _, _, _, _, _, _, _, _)
\* the two nested placement loops, at (row, col) with `index` elements placed
GridPlace(o, drawings, cfg, g, cellWidth, cellHeight, row, col, index) ==
    IF row >= g.rows \/ index >= Len(drawings) THEN o
    ELSE IF col >= g.cols
         THEN GridPlace(o, drawings, cfg, g, cellWidth, cellHeight, row + 1, 0, index)
    ELSE LET x == cfg.marginLeft + col * cellWidth
             y == cfg.marginTop + row * cellHeight
         IN  GridPlace(setPosition(o, drawings[index + 1], x, y), drawings, cfg, g,
                       cellWidth, cellHeight, row, col + 1, index + 1)

\* whether the grid sizing of this call performs an undefined cast
GridCastUndefined(o, elems, cs, cfg) ==
    LET drawings == getDrawingElements(o, elems)
    IN  /\ Len(drawings) > 0
        /\ \/ MaxOver(o, drawings, "width", 1) + cfg.padding = 0
           \/ MaxOver(o, drawings, "height", 1) + cfg.padding = 0

arrangeGrid(o, elems, cs, cfg, ub) ==
    LET drawings == getDrawingElements(o, elems)
        availableWidth == cs.width - cfg.marginLeft - cfg.marginRight
        availableHeight == cs.height - cfg.marginTop - cfg.marginBottom
        maxWidth == MaxOver(o, drawings, "width", 1)
        maxHeight == MaxOver(o, drawings, "height", 1)
        cellWidth == maxWidth + cfg.padding
        cellHeight == maxHeight + cfg.padding
        g == GridSizing(Len(drawings), availableWidth, availableHeight,
                        cellWidth, cellHeight, ub)
    IN  IF Len(drawings) = 0
        THEN [obj |-> o, result |-> EmptyResult]
        ELSE [obj |-> GridPlace(o, drawings, cfg, g, cellWidth, cellHeight, 0, 0, 0),
              result |-> [LayoutResult EXCEPT
                              !.success = TRUE,
                              !.elementsArranged = Len(drawings),
                              !.totalArea = availableWidth * availableHeight]]

----------------------------------------------------------------------------
(* Hierarchical strategy *)

\* whether some Relationship of the collection has elem as connector2
hasParent(o, relationships, elem) ==
    \E i \in 1..Len(relationships) : o[relationships[i]].connector2 = elem

\* the root elements, in input order
Roots(o, drawings, relationships) ==
    SelectSeq(drawings, LAMBDA e : ~hasParent(o, relationships, e))

SeqRange(s) == {s[i] : i \in 1..Len(s)}

\* levelMap after the root search and the no-roots fallback
InitialLevels(o, drawings, relationships) ==
    LET roots == Roots(o, drawings, relationships)
        rootSet == IF Len(roots) = 0 THEN SeqRange(drawings) ELSE SeqRange(roots)
    IN  [e \in rootSet |-> 0]

\* levelMap[child] = level, inserting the key when it is absent
PutLevel(levelMap, child, level) ==
    [e \in DOMAIN levelMap \cup {child} |-> IF e = child THEN level ELSE levelMap[e]]

RECURSIVE AssignLevelsOfParent(_, _, _, _)
\* mutant: a child takes the level of its parent
AssignLevelsOfParent(o, relationships, levelMap, i) ==
    IF i > Len(relationships) THEN levelMap
    ELSE LET parent == o[relationships[i]].connector1
             child == o[relationships[i]].connector2
             next == IF parent # Null /\ child # Null /\ parent \in DOMAIN levelMap
                     THEN PutLevel(levelMap, child, levelMap[parent])
                     ELSE levelMap
         IN  AssignLevelsOfParent(o, relationships, next, i + 1)

RECURSIVE AssignLevels(_, _, _, _)
\* the single pass over the relationships, from index i on
AssignLevels(o, relationships, levelMap, i) ==
    IF i > Len(relationships) THEN levelMap
    ELSE LET parent == o[relationships[i]].connector1
             child == o[relationships[i]].connector2
             next == IF parent # Null /\ child # Null /\ parent \in DOMAIN levelMap
                     THEN PutLevel(levelMap, child, levelMap[parent] + 1)
                     ELSE levelMap
         IN  AssignLevels(o, relationships, next, i + 1)

\* mutant: the relationships are visited a second time
LevelMapTwoPasses(o, elems) ==
    LET drawings == getDrawingElements(o, elems)
        relationships == getRelationshipElements(o, elems)
        once == AssignLevels(o, relationships, InitialLevels(o, drawings, relationships), 1)
    IN  AssignLevels(o, relationships, once, 1)

\* levelMap as the positioning step reads it
LevelMap(o, elems) ==
    LET drawings == getDrawingElements(o, elems)
        relationships == getRelationshipElements(o, elems)
    IN  AssignLevels(o, relationships, InitialLevels(o, drawings, relationships), 1)

RECURSIVE MaxLevelOf(_, _)
MaxLevelOf(levelMap, keys) ==
    IF keys = {} THEN 0
    ELSE LET e == CHOOSE e \in keys : TRUE
         IN  Max(levelMap[e], MaxLevelOf(levelMap, keys \ {e}))

LevelOf(levelMap, e) == IF e \in DOMAIN levelMap THEN levelMap[e] ELSE 0

RECURSIVE SeqOfSet(_)
\* a set of element ids as an ascending sequence (used by the mutant below)
SeqOfSet(S) ==
    IF S = {} THEN <<>>
    ELSE LET e == CHOOSE e \in S : \A f \in S : e <= f
         IN  <<e>> \o SeqOfSet(S \ {e})

\* mutant: a level also holds the levelled elements that are not in the collection
LevelBucketOfMap(levelMap, drawings, level) ==
    SelectSeq(drawings, LAMBDA e : (IF e \in DOMAIN levelMap THEN levelMap[e] ELSE 0) = level)
    \o SeqOfSet({e \in DOMAIN levelMap : levelMap[e] = level /\ e \notin {drawings[i] : i \in 1..Len(drawings)}})

\* levels[level]: the Drawing elements of one level, in input order
LevelBucket(levelMap, drawings, level) ==
    SelectSeq(drawings, LAMBDA e : LevelOf(levelMap, e) = level)

RECURSIVE PlaceLevelCountGaps(_, _, _, _, _, _, _)
\* mutant: the width is divided into count gaps
PlaceLevelCountGaps(o, bucket, cfg, availableWidth, level, y, i) ==
    IF i >= Len(bucket) THEN o
    ELSE LET count == Len(bucket)
             e == bucket[i + 1]
             x == cfg.marginLeft
                  + TruncDiv(2 * (i + 1) * availableWidth - o[e].width * count, 2 * count)
         IN  PlaceLevelCountGaps(setPosition(o, e, x, y), bucket, cfg, availableWidth,
                                 level, y, i + 1)

RECURSIVE PlaceLevel(_, _, _, _, _, _, _)
\* the inner positioning loop of one level, from index i (0-based) on.
\* x = marginLeft + (i + 1) * availableWidth / (count + 1) - width / 2,
\* truncated to a whole unit once
PlaceLevel(o, bucket, cfg, availableWidth, level, y, i) ==
    IF i >= Len(bucket) THEN o
    ELSE LET count == Len(bucket)
             e == bucket[i + 1]
             x == cfg.marginLeft
                  + TruncDiv(2 * (i + 1) * availableWidth - o[e].width * (count + 1),
                             2 * (count + 1))
         IN  PlaceLevel(setPosition(o, e, x, y), bucket, cfg, availableWidth,
                        level, y, i + 1)

RECURSIVE PlaceLevelsFromZero(_, _, _, _, _, _, _)
\* mutant: the rows start at y = 0
PlaceLevelsFromZero(o, drawings, levelMap, cfg, availableWidth, maxLevel, level) ==
    IF level > maxLevel THEN o
    ELSE LET bucket == LevelBucket(levelMap, drawings, level)
             y == level * verticalSpacing
         IN  PlaceLevelsFromZero(PlaceLevel(o, bucket, cfg, availableWidth, level, y, 0),
                                 drawings, levelMap, cfg, availableWidth, maxLevel, level + 1)

RECURSIVE PlaceLevels(_, _, _, _, _, _, _)
\* the outer positioning loop, from `level` to maxLevel
PlaceLevels(o, drawings, levelMap, cfg, availableWidth, maxLevel, level) ==
    IF level > maxLevel THEN o
    ELSE LET bucket == LevelBucket(levelMap, drawings, level)
             y == cfg.marginTop + level * verticalSpacing
         IN  PlaceLevels(PlaceLevel(o, bucket, cfg, availableWidth, level, y, 0),
                         drawings, levelMap, cfg, availableWidth, maxLevel, level + 1)

arrangeHierarchical(o, elems, cs, cfg) ==
    LET drawings == getDrawingElements(o, elems)
        levelMap == LevelMap(o, elems)
        availableWidth == cs.width - cfg.marginLeft - cfg.marginRight
        maxLevel == MaxLevelOf(levelMap, DOMAIN levelMap)
    IN  IF Len(drawings) = 0
        THEN [obj |-> o, result |-> EmptyResult]
        ELSE [obj |-> PlaceLevels(o, drawings, levelMap, cfg, availableWidth, maxLevel, 0),
              result |-> [LayoutResult EXCEPT
                              !.success = TRUE,
                              !.elementsArranged = Len(drawings),
                              !.totalArea = availableWidth
                                  * (cs.height - cfg.marginTop - cfg.marginBottom)]]

----------------------------------------------------------------------------
(* Placement on a circle: the angles 2 * pi * i / n, in thousandths *)

CosTable == <<
    <<1000>>,
    <<1000, -1000>>,
    <<1000, -500, -500>>,
    <<1000, 0, -1000, 0>>,
    <<1000, 309, -809, -809, 309>>,
    <<1000, 500, -500, -1000, -500, 500>> >>

SinTable == <<
    <<0>>,
    <<0, 0>>,
    <<0, 866, -866>>,
    <<0, 1000, 0, -1000>>,
    <<0, 951, 588, -588, -951>>,
    <<0, 866, 866, 0, -866, -866>> >>

\* radius * std::cos(2 * pi * i / n), truncated to a whole unit (i 0-based)
TimesCos(radius, i, n) == TruncDiv(radius * CosTable[n][i + 1], 1000)
TimesSin(radius, i, n) == TruncDiv(radius * SinTable[n][i + 1], 1000)

----------------------------------------------------------------------------
(* Force-directed strategy *)

RECURSIVE SeedPositions(_, _, _, _)
\* the initial placement around the canvas centre, from index i (0-based) on
SeedPositions(o, drawings, cs, i) ==
    IF i >= Len(drawings) THEN o
    ELSE LET n == Len(drawings)
             x == TruncDiv(cs.width, 2) + TimesCos(spread, i, n)
             y == TruncDiv(cs.height, 2) + TimesSin(spread, i, n)
         IN  SeedPositions(setPosition(o, drawings[i + 1], x, y), drawings, cs, i + 1)

\* std::sqrt(dx * dx + dy * dy), truncated, and raised to 1 when below 1
Distance(dx, dy) == Max(1, Hypot(dx, dy))

\* forces[i] += (fx, fy); forces[j] -= (fx, fy)   (i, j 1-based here)
AddForce(forces, i, j, fx, fy) ==
    LET f1 == [forces EXCEPT ![i] = [x |-> @.x + fx, y |-> @.y + fy]]
    IN  [f1 EXCEPT ![j] = [x |-> @.x - fx, y |-> @.y - fy]]

RECURSIVE Repulsion(_, _, _, _, _)
\* the repulsion loops over the pairs i < j (1-based), each term truncated
Repulsion(o, drawings, forces, i, j) ==
    IF i > Len(drawings) THEN forces
    ELSE IF j > Len(drawings) THEN Repulsion(o, drawings, forces, i + 1, i + 2)
    ELSE LET dx == o[drawings[i]].x - o[drawings[j]].x
             dy == o[drawings[i]].y - o[drawings[j]].y
             dist == Distance(dx, dy)
             fx == TruncDiv(TruncDiv(repulsion * dx, dist * dist), dist)
             fy == TruncDiv(TruncDiv(repulsion * dy, dist * dist), dist)
         IN  Repulsion(o, drawings, AddForce(forces, i, j, fx, fy), i, j + 1)

\* std::find: the first index of e in drawings, 0 when absent
IndexOf(drawings, e) ==
    IF \E i \in 1..Len(drawings) : drawings[i] = e
    THEN CHOOSE i \in 1..Len(drawings) :
             drawings[i] = e /\ \A j \in 1..(i - 1) : drawings[j] # e
    ELSE 0

RECURSIVE Attraction(_, _, _, _, _)
\* the spring loop over the relationships, from index r on, each term truncated
Attraction(o, drawings, relationships, forces, r) ==
    IF r > Len(relationships) THEN forces
    ELSE LET conn1 == o[relationships[r]].connector1
             conn2 == o[relationships[r]].connector2
             skip == conn1 = Null \/ conn2 = Null
                     \/ IndexOf(drawings, conn1) = 0 \/ IndexOf(drawings, conn2) = 0
             dx == o[conn2].x - o[conn1].x
             dy == o[conn2].y - o[conn1].y
             dist == Distance(dx, dy)
             fx == TruncDiv(k * (dist - targetDistance) * dx, dist * dist)
             fy == TruncDiv(k * (dist - targetDistance) * dy, dist * dist)
             next == IF skip THEN forces
                     ELSE AddForce(forces, IndexOf(drawings, conn1),
                                   IndexOf(drawings, conn2), fx, fy)
         IN  Attraction(o, drawings, relationships, next, r + 1)

\* mutant: the upper bound is not applied
ClampFromBelow(v, lo, hi) == IF v < lo THEN lo ELSE v

\* mutant: the upper bound is applied last
ClampUpperLast(v, lo, hi) == Min(hi, Max(v, lo))

\* std::max(lo, std::min(v, hi))
Clamp(v, lo, hi) == Max(lo, Min(v, hi))

RECURSIVE ApplyForces(_, _, _, _, _, _)
\* the damped move and the clamp of each element, from index i (1-based) on
ApplyForces(o, drawings, forces, cs, cfg, i) ==
    IF i > Len(drawings) THEN o
    ELSE LET e == drawings[i]
             px == o[e].x + TruncDiv(forces[i].x * dampingNum, dampingDen)
             py == o[e].y + TruncDiv(forces[i].y * dampingNum, dampingDen)
             x == Clamp(px, cfg.marginLeft, cs.width - cfg.marginRight - o[e].width)
             y == Clamp(py, cfg.marginTop, cs.height - cfg.marginBottom - o[e].height)
         IN  ApplyForces(setPosition(o, e, x, y), drawings, forces, cs, cfg, i + 1)

\* one iteration of the relaxation
ForceIteration(o, drawings, relationships, cs, cfg) ==
    LET zero == [i \in 1..Len(drawings) |-> [x |-> 0, y |-> 0]]
        repelled == Repulsion(o, drawings, zero, 1, 2)
        forces == Attraction(o, drawings, relationships, repelled, 1)
    IN  ApplyForces(o, drawings, forces, cs, cfg, 1)

RECURSIVE ForceRunUntilStable(_, _, _, _, _)
\* mutant: the loop also stops once an iteration moves no element
ForceRunUntilStable(st, drawings, relationships, cs, cfg) ==
    IF st.iter >= iterations
       \/ ForceIteration(st.obj, drawings, relationships, cs, cfg) = st.obj
    THEN st
    ELSE ForceRunUntilStable(
             [iter |-> st.iter + 1,
              obj |-> ForceIteration(st.obj, drawings, relationships, cs, cfg)],
             drawings, relationships, cs, cfg)

RECURSIVE ForceRun(_, _, _, _, _)
\* the iteration loop; st holds the loop counter iter and the heap it has
\* reached, and the value is st when the loop is left
ForceRun(st, drawings, relationships, cs, cfg) ==
    IF st.iter >= iterations THEN st
    ELSE ForceRun([iter |-> st.iter + 1,
                   obj |-> ForceIteration(st.obj, drawings, relationships, cs, cfg)],
                  drawings, relationships, cs, cfg)

\* the heap when the iteration loop is left
ForceLoop(st, drawings, relationships, cs, cfg) ==
    ForceRun(st, drawings, relationships, cs, cfg).obj

\* mutant: the springs act only when config.respectConnections is set
arrangeForceRespectingConnections(o, elems, cs, cfg) ==
    LET drawings == getDrawingElements(o, elems)
        relationships == IF cfg.respectConnections
                         THEN getRelationshipElements(o, elems)
                         ELSE <<>>
        seeded == SeedPositions(o, drawings, cs, 0)
    IN  IF Len(drawings) = 0
        THEN [obj |-> o, result |-> EmptyResult]
        ELSE [obj |-> ForceLoop([iter |-> 0, obj |-> seeded],
                                 drawings, relationships, cs, cfg),
              result |-> [LayoutResult EXCEPT
                              !.success = TRUE,
                              !.elementsArranged = Len(drawings),
                              !.totalArea = cs.width * cs.height]]

arrangeForce(o, elems, cs, cfg) ==
    LET drawings == getDrawingElements(o, elems)
        relationships == getRelationshipElements(o, elems)
        seeded == SeedPositions(o, drawings, cs, 0)
    IN  IF Len(drawings) = 0
        THEN [obj |-> o, result |-> EmptyResult]
        ELSE [obj |-> ForceLoop([iter |-> 0, obj |-> seeded],
                                 drawings, relationships, cs, cfg),
              result |-> [LayoutResult EXCEPT
                              !.success = TRUE,
                              !.elementsArranged = Len(drawings),
                              !.totalArea = cs.width * cs.height]]

----------------------------------------------------------------------------
(* Circular strategy *)

RECURSIVE CirclePlace(_, _, _, _, _)
\* the placement loop, from index i (0-based) on; halves truncated
CirclePlace(o, drawings, cs, radius, i) ==
    IF i >= Len(drawings) THEN o
    ELSE LET n == Len(drawings)
             e == drawings[i + 1]
             x == TruncDiv(cs.width, 2) + TimesCos(radius, i, n)
                  - TruncDiv(o[e].width, 2)
             y == TruncDiv(cs.height, 2) + TimesSin(radius, i, n)
                  - TruncDiv(o[e].height, 2)
         IN  CirclePlace(setPosition(o, e, x, y), drawings, cs, radius, i + 1)

\* mutant: the radius is half the smaller available side
CircleRadiusNoInset(cs, cfg) ==
    TruncDiv(Min(cs.width - cfg.marginLeft - cfg.marginRight,
                 cs.height - cfg.marginTop - cfg.marginBottom), 2)

\* min(availableWidth, availableHeight) / 2 - 100, truncated
CircleRadius(cs, cfg) ==
    TruncDiv(Min(cs.width - cfg.marginLeft - cfg.marginRight,
                 cs.height - cfg.marginTop - cfg.marginBottom), 2) - circleInset

arrangeCircular(o, elems, cs, cfg) ==
    LET drawings == getDrawingElements(o, elems)
        radius == CircleRadius(cs, cfg)
    IN  IF Len(drawings) = 0
        THEN [obj |-> o, result |-> EmptyResult]
        ELSE [obj |-> CirclePlace(o, drawings, cs, radius, 0),
              result |-> [LayoutResult EXCEPT
                              !.success = TRUE,
                              !.elementsArranged = Len(drawings),
                              \* M_PI * radius * radius, truncated
                              !.totalArea = TruncDiv(3142 * TruncDiv(radius * radius, 10), 100)]]

----------------------------------------------------------------------------
(* LayoutEngine: dispatch and accessors *)

\* the switch on config.strategy, with its default branch
\* mutant: the default branch of the switch runs the Circular layout
DispatchDefaultCircular(o, elems, cs, cfg, ub) ==
    CASE cfg.strategy = "Grid" -> arrangeGrid(o, elems, cs, cfg, ub)
      [] cfg.strategy = "Hierarchical" -> arrangeHierarchical(o, elems, cs, cfg)
      [] cfg.strategy = "Force" -> arrangeForce(o, elems, cs, cfg)
      [] OTHER -> arrangeCircular(o, elems, cs, cfg)

Dispatch(o, elems, cs, cfg, ub) ==
    CASE cfg.strategy = "Grid" -> arrangeGrid(o, elems, cs, cfg, ub)
      [] cfg.strategy = "Hierarchical" -> arrangeHierarchical(o, elems, cs, cfg)
      [] cfg.strategy = "Force" -> arrangeForce(o, elems, cs, cfg)
      [] cfg.strategy = "Circular" -> arrangeCircular(o, elems, cs, cfg)
      [] OTHER -> arrangeGrid(o, elems, cs, cfg, ub)

\* the values a build may give an undefined float-to-int cast
CastOutcomes == {-2147483647, 0, 1, 1000000}

\* the undefined values one call draws: one per cast when a cast is undefined
UndefinedCasts(o, elems, cs, cfg) ==
    IF cfg.strategy \notin {"Hierarchical", "Force", "Circular"}
       /\ GridCastUndefined(o, elems, cs, cfg)
    THEN [cols : CastOutcomes, rows : CastOutcomes]
    ELSE {[cols |-> 0, rows |-> 0]}

----------------------------------------------------------------------------
(* Overlap queries *)

\* mutant: the element types are not tested
checkOverlapAnyType(o, cfg, elem1, elem2) ==
    IF elem1 = Null \/ elem2 = Null THEN FALSE
    ELSE /\ o[elem1].x + o[elem1].width + cfg.padding > o[elem2].x
         /\ o[elem2].x + o[elem2].width + cfg.padding > o[elem1].x
         /\ o[elem1].y + o[elem1].height + cfg.padding > o[elem2].y
         /\ o[elem2].y + o[elem2].height + cfg.padding > o[elem1].y

\* mutant: the padding is added to the other box's near edge
checkOverlapPaddingOnNearEdge(o, cfg, elem1, elem2) ==
    IF elem1 = Null \/ elem2 = Null THEN FALSE
    ELSE IF o[elem1].kind # "Drawing" \/ o[elem2].kind # "Drawing" THEN FALSE
    ELSE /\ o[elem1].x + o[elem1].width > o[elem2].x + cfg.padding
         /\ o[elem2].x + o[elem2].width > o[elem1].x + cfg.padding
         /\ o[elem1].y + o[elem1].height > o[elem2].y + cfg.padding
         /\ o[elem2].y + o[elem2].height > o[elem1].y + cfg.padding

\* mutant: an overlap on one axis is enough
checkOverlapEitherAxis(o, cfg, elem1, elem2) ==
    IF elem1 = Null \/ elem2 = Null THEN FALSE
    ELSE IF o[elem1].kind # "Drawing" \/ o[elem2].kind # "Drawing" THEN FALSE
    ELSE \/ /\ o[elem1].x + o[elem1].width + cfg.padding > o[elem2].x
            /\ o[elem2].x + o[elem2].width + cfg.padding > o[elem1].x
         \/ /\ o[elem1].y + o[elem1].height + cfg.padding > o[elem2].y
            /\ o[elem2].y + o[elem2].height + cfg.padding > o[elem1].y

\* mutant: boxes whose inflated edges touch are reported
checkOverlapTouching(o, cfg, elem1, elem2) ==
    IF elem1 = Null \/ elem2 = Null THEN FALSE
    ELSE IF o[elem1].kind # "Drawing" \/ o[elem2].kind # "Drawing" THEN FALSE
    ELSE /\ o[elem1].x + o[elem1].width + cfg.padding >= o[elem2].x
         /\ o[elem2].x + o[elem2].width + cfg.padding >= o[elem1].x
         /\ o[elem1].y + o[elem1].height + cfg.padding >= o[elem2].y
         /\ o[elem2].y + o[elem2].height + cfg.padding >= o[elem1].y

\* LayoutEngine::Impl::checkOverlap(elem1, elem2), with config.padding of cfg
checkOverlap(o, cfg, elem1, elem2) ==
    IF elem1 = Null \/ elem2 = Null THEN FALSE
    ELSE IF o[elem1].kind # "Drawing" \/ o[elem2].kind # "Drawing" THEN FALSE
    ELSE LET padding == cfg.padding
             overlapX == /\ o[elem1].x + o[elem1].width + padding > o[elem2].x
                         /\ o[elem2].x + o[elem2].width + padding > o[elem1].x
             overlapY == /\ o[elem1].y + o[elem1].height + padding > o[elem2].y
                         /\ o[elem2].y + o[elem2].height + padding > o[elem1].y
         IN  overlapX /\ overlapY

RECURSIVE CountLoop(_, _, _, _, _, _)
\* the nested loops of countOverlaps at (i, j), 1-based, with the count so far
CountLoop(o, cfg, elems, i, j, count) ==
    IF i > Len(elems) THEN count
    ELSE IF j > Len(elems) THEN CountLoop(o, cfg, elems, i + 1, i + 2, count)
    ELSE CountLoop(o, cfg, elems, i, j + 1,
                   IF checkOverlap(o, cfg, elems[i], elems[j]) THEN count + 1 ELSE count)

RECURSIVE CountOrderedPairs(_, _, _, _, _, _)
\* mutant: the inner loop starts at the first entry, so a pair is met twice
\* and an entry is paired with itself
CountOrderedPairs(o, cfg, elems, i, j, count) ==
    IF i > Len(elems) THEN count
    ELSE IF j > Len(elems) THEN CountOrderedPairs(o, cfg, elems, i + 1, 1, count)
    ELSE CountOrderedPairs(o, cfg, elems, i, j + 1,
                           IF checkOverlap(o, cfg, elems[i], elems[j])
                           THEN count + 1 ELSE count)

countOverlapsOrderedPairs(o, cfg, elems) == CountOrderedPairs(o, cfg, elems, 1, 1, 0)

\* LayoutEngine::countOverlaps(elements)
countOverlaps(o, cfg, elems) == CountLoop(o, cfg, elems, 1, 2, 0)

----------------------------------------------------------------------------
(* The engine's operations *)

\* the value of query when the last operation was not an overlap query
NoQuery == [elem1 |-> Null, elem2 |-> Null, overlap |-> FALSE, count |-> 0]

\* the placeholder of lastArg for an operation without a LayoutConfig argument
NoArg == LayoutConfig

\* mutant: the call lays out with c but does not store it
ArrangeElementsNoStore(c) ==
    \E ub \in UndefinedCasts(obj, elements, canvasSize, c) :
        LET r == Dispatch(obj, elements, canvasSize, c, ub)
        IN  /\ obj' = r.obj
            /\ result' = r.result
            /\ lastOp' = "arrangeElements"
            /\ lastArg' = c
            /\ query' = NoQuery
            /\ configSet' = TRUE
            /\ UNCHANGED <<elements, canvasSize, config>>

\* arrangeElements(elements, c)
ArrangeElements(c) ==
    \E ub \in UndefinedCasts(obj, elements, canvasSize, c) :
        LET r == Dispatch(obj, elements, canvasSize, c, ub)
        IN  /\ config' = c
            /\ obj' = r.obj
            /\ result' = r.result
            /\ lastOp' = "arrangeElements"
            /\ lastArg' = c
            /\ query' = NoQuery
            /\ configSet' = TRUE
            /\ UNCHANGED <<elements, canvasSize>>

\* arrangeElements(elements): the overload passing the stored configuration
ArrangeElementsStored ==
    \E ub \in UndefinedCasts(obj, elements, canvasSize, config) :
        LET r == Dispatch(obj, elements, canvasSize, config, ub)
        IN  /\ config' = config
            /\ obj' = r.obj
            /\ result' = r.result
            /\ lastOp' = "arrangeElementsStored"
            /\ lastArg' = NoArg
            /\ query' = NoQuery
            /\ UNCHANGED <<elements, canvasSize, configSet>>

\* setCanvasSize(size) and setCanvasSize(width, height)
SetCanvasSize(size) ==
    /\ canvasSize' = size
    /\ lastOp' = "setCanvasSize"
    /\ lastArg' = NoArg
    /\ query' = NoQuery
    /\ UNCHANGED <<obj, elements, config, result, configSet>>

\* setLayoutConfig(c)
SetLayoutConfig(c) ==
    /\ config' = c
    /\ lastOp' = "setLayoutConfig"
    /\ lastArg' = c
    /\ query' = NoQuery
    /\ configSet' = TRUE
    /\ UNCHANGED <<obj, elements, canvasSize, result>>

\* setLayoutStrategy(s)
SetLayoutStrategy(s) ==
    /\ config' = [config EXCEPT !.strategy = s]
    /\ lastOp' = "setLayoutStrategy"
    /\ lastArg' = NoArg
    /\ query' = NoQuery
    /\ configSet' = TRUE
    /\ UNCHANGED <<obj, elements, canvasSize, result>>

\* mutant: the test runs with the default padding
CheckOverlapDefaultPadding(elem1, elem2) ==
    /\ query' = [elem1 |-> elem1, elem2 |-> elem2,
                 overlap |-> checkOverlap(obj, [config EXCEPT !.padding = defaultPadding],
                                          elem1, elem2),
                 count |-> 0]
    /\ lastOp' = "checkOverlap"
    /\ lastArg' = NoArg
    /\ UNCHANGED <<obj, elements, canvasSize, config, result, configSet>>

\* checkOverlap(elem1, elem2) on the engine
CheckOverlap(elem1, elem2) ==
    /\ query' = [elem1 |-> elem1, elem2 |-> elem2,
                 overlap |-> checkOverlap(obj, config, elem1, elem2), count |-> 0]
    /\ lastOp' = "checkOverlap"
    /\ lastArg' = NoArg
    /\ UNCHANGED <<obj, elements, canvasSize, config, result, configSet>>

\* mutant: the count drops the empty pointers from the collection first
CountOverlapsCompacting ==
    /\ elements' = SelectSeq(elements, LAMBDA e : e # Null)
    /\ query' = [elem1 |-> Null, elem2 |-> Null, overlap |-> FALSE,
                 count |-> countOverlaps(obj, config, elements)]
    /\ lastOp' = "countOverlaps"
    /\ lastArg' = NoArg
    /\ UNCHANGED <<obj, canvasSize, config, result, configSet>>

\* countOverlaps(elements) on the engine
CountOverlaps ==
    /\ query' = [elem1 |-> Null, elem2 |-> Null, overlap |-> FALSE,
                 count |-> countOverlaps(obj, config, elements)]
    /\ lastOp' = "countOverlaps"
    /\ lastArg' = NoArg
    /\ UNCHANGED <<obj, elements, canvasSize, config, result, configSet>>

\* the engine after either constructor
InitEngine(canvases) ==
    /\ canvasSize \in canvases
    /\ config = LayoutConfig
    /\ result = LayoutResult
    /\ lastOp = "init"
    /\ lastArg = NoArg
    /\ configSet = FALSE
    /\ query = NoQuery

----------------------------------------------------------------------------
(* The caller's side: the collections and the arguments the model draws *)

MaxElems == 3

SeqsUpTo(S, n) == UNION {[1..m -> S] : m \in 0..n}

\* no element is listed twice (an empty pointer may be)
NoRepeat(s) == \A i, j \in 1..Len(s) : (i < j /\ s[i] = s[j]) => s[i] = Null

Margins(t, b, l, r) ==
    [marginTop |-> t, marginBottom |-> b, marginLeft |-> l, marginRight |-> r]

ConfigOf(s, p, m, rc) ==
    [strategy |-> s, padding |-> p,
     marginTop |-> m.marginTop, marginBottom |-> m.marginBottom,
     marginLeft |-> m.marginLeft, marginRight |-> m.marginRight,
     respectConnections |-> rc]

DefaultMargins == Margins(defaultMargin, defaultMargin, defaultMargin, defaultMargin)
OtherMargins == Margins(10, 20, 30, 40)

\* a strategy value outside the enumeration is "Unrecognized"
StrategyValues == Strategies \cup {"Unrecognized"}

\* three boxes (one of them of size 0 x 0) and two connectors
HeapOf(pos, ends) ==
    [id \in 1..5 |->
        CASE id = 1 -> DrawingElement(120, 80, pos[1][1], pos[1][2])
          [] id = 2 -> DrawingElement(defaultDrawingWidth, defaultDrawingHeight,
                                      pos[2][1], pos[2][2])
          [] id = 3 -> DrawingElement(0, 0, pos[3][1], pos[3][2])
          [] id = 4 -> RelationshipElement(ends[1][1], ends[1][2])
          [] id = 5 -> RelationshipElement(ends[2][1], ends[2][2])]

\* freshly constructed boxes joined in a chain; boxes the caller has moved,
\* joined by a back edge and a connector whose first end is unset
Heaps ==
    {HeapOf(<<<<0, 0>>, <<0, 0>>, <<0, 0>>>>, <<<<1, 2>>, <<2, 3>>>>),
     HeapOf(<<<<7, 11>>, <<640, 480>>, <<-5, 2000>>>>, <<<<2, 1>>, <<Null, 2>>>>)}

SmallCanvas == [width |-> 400, height |-> 300]

Configs ==
    {ConfigOf(s, defaultPadding, DefaultMargins, TRUE) : s \in StrategyValues}
    \cup {ConfigOf(s, 0, OtherMargins, FALSE) : s \in StrategyValues \ {"Force"}}

----------------------------------------------------------------------------
(* Spec: the engine's operations in any order, on a few collections *)

ProtocolCollections == {<<>>, <<4>>, <<1, 4, 2>>, <<3, 5, 2>>}

Init ==
    /\ obj = HeapOf(<<<<0, 0>>, <<0, 0>>, <<0, 0>>>>, <<<<1, 2>>, <<2, 3>>>>)
    /\ elements \in ProtocolCollections
    /\ InitEngine({CanvasSize, SmallCanvas})

Next ==
    \/ \E c \in Configs : ArrangeElements(c)
    \/ ArrangeElementsStored
    \/ \E size \in {CanvasSize, SmallCanvas} : SetCanvasSize(size)
    \/ \E c \in Configs : SetLayoutConfig(c)
    \/ \E s \in StrategyValues : SetLayoutStrategy(s)

Spec == Init /\ [][Next]_vars

----------------------------------------------------------------------------
(* SpecArrange: arrangeElements on every collection of at most MaxElems    *)
(* entries over the three boxes, the two connectors and the empty pointer  *)

InitArrange ==
    /\ obj \in Heaps
    /\ elements \in {s \in SeqsUpTo(0..5, MaxElems) : NoRepeat(s)}
    /\ InitEngine({SmallCanvas})

NextArrange == \E c \in Configs : ArrangeElements(c)

SpecArrange == InitArrange /\ [][NextArrange]_vars

----------------------------------------------------------------------------
(* SpecGrid: the Grid strategy on 1..GridMaxBoxes boxes and four connectors *)

GridMaxBoxes == 5

SizePatterns ==
    {[id \in 1..GridMaxBoxes |-> <<120, 80>>],
     [id \in 1..GridMaxBoxes |-> <<defaultDrawingWidth, defaultDrawingHeight>>],
     [id \in 1..GridMaxBoxes |-> <<40 + 40 * (id % 3), 50 + 30 * (id % 2)>>]}

\* the connectors of examples/layout_example.cpp: 1-2, 2-3, 2-4, 2-5
GridHeap(sizes) ==
    [id \in 1..(GridMaxBoxes + 4) |->
        IF id <= GridMaxBoxes
        THEN DrawingElement(sizes[id][1], sizes[id][2], 0, 0)
        ELSE RelationshipElement(IF id = GridMaxBoxes + 1 THEN 1 ELSE 2,
                                 id - GridMaxBoxes + 1)]

\* the boxes 1..n, then the four connectors (the example's order)
BoxesThenConnectors(n) ==
    [i \in 1..(n + 4) |-> IF i <= n THEN i ELSE GridMaxBoxes + (i - n)]

\* the boxes 1..n, each preceded by a connector or an empty pointer
Interleaved(n) ==
    [i \in 1..(2 * n) |->
        IF i % 2 = 0 THEN i \div 2
        ELSE IF i >= 3 /\ i <= 9 THEN GridMaxBoxes + (i \div 2) ELSE Null]

GridCanvases ==
    {[width |-> 1600, height |-> 900], SmallCanvas, [width |-> 300, height |-> 150]}

GridConfigs ==
    {ConfigOf("Grid", p, m, TRUE) : p \in {30, 0, -20}, m \in {DefaultMargins, OtherMargins}}

InitGrid ==
    /\ \E sizes \in SizePatterns : obj = GridHeap(sizes)
    /\ \E n \in 1..GridMaxBoxes : elements \in {BoxesThenConnectors(n), Interleaved(n)}
    /\ InitEngine(GridCanvases)

NextGrid == \E c \in GridConfigs : ArrangeElements(c)

SpecGrid == InitGrid /\ [][NextGrid]_vars

----------------------------------------------------------------------------
(* SpecHier: the Hierarchical strategy on three boxes and up to HierMaxRels *)
(* connectors with every choice of ends, set or unset                       *)

HierMaxRels == 3

EndPairs == (0..3) \X (0..3)

\* the connectors listed in the collection take `ends`; the others stay unset
HierHeap(ends) ==
    [id \in 1..(3 + HierMaxRels) |->
        CASE id = 1 -> DrawingElement(120, 80, 0, 0)
          [] id = 2 -> DrawingElement(defaultDrawingWidth, defaultDrawingHeight, 0, 0)
          [] id = 3 -> DrawingElement(60, 200, 0, 0)
          [] OTHER -> IF id - 3 <= Len(ends)
                      THEN RelationshipElement(ends[id - 3][1], ends[id - 3][2])
                      ELSE RelationshipElement(Null, Null)]

HierBoxOrders == {<<1, 2, 3>>, <<3, 1, 2>>, <<1, 2>>, <<2>>}

HierConfigs ==
    {ConfigOf("Hierarchical", defaultPadding, DefaultMargins, TRUE),
     ConfigOf("Hierarchical", 40, OtherMargins, FALSE)}

InitHier ==
    /\ \E ends \in SeqsUpTo(EndPairs, HierMaxRels) :
           /\ obj = HierHeap(ends)
           /\ \E boxes \in HierBoxOrders :
                  elements = boxes \o [i \in 1..Len(ends) |-> 3 + i]
    /\ InitEngine({CanvasSize})

NextHier == \E c \in HierConfigs : ArrangeElements(c)

SpecHier == InitHier /\ [][NextHier]_vars

----------------------------------------------------------------------------
(* SpecForce: the Force strategy on boxes that fit the usable area and boxes *)
(* that are wider or taller than it                                          *)

ForceMaxElems == 3

\* box 2 is wider and box 3 taller than the usable area of SmallCanvas
ForceHeap(ends) ==
    [id \in 1..4 |->
        CASE id = 1 -> DrawingElement(120, 80, 0, 0)
          [] id = 2 -> DrawingElement(350, 60, 10, 500)
          [] id = 3 -> DrawingElement(60, 250, 700, 20)
          [] OTHER -> RelationshipElement(ends[1], ends[2])]

ForceEnds == {<<1, 2>>, <<3, 1>>, <<Null, 1>>}

ForceConfigs ==
    {ConfigOf("Force", defaultPadding, DefaultMargins, TRUE),
     ConfigOf("Force", 0, OtherMargins, TRUE)}

InitForce ==
    /\ obj \in {ForceHeap(ends) : ends \in ForceEnds}
    /\ elements \in {s \in SeqsUpTo(1..4, ForceMaxElems) : NoRepeat(s)}
    /\ InitEngine({SmallCanvas, CanvasSize})

NextForce == \E c \in ForceConfigs : ArrangeElements(c)

SpecForce == InitForce /\ [][NextForce]_vars

----------------------------------------------------------------------------
(* SpecRerun: arrangeElements called again and again on one collection, with *)
(* boxes of width 0 among the boxes                                          *)

RerunMaxElems == 3

\* boxes 1 and 2 have width 0; the boxes start at positions of the caller's
RerunHeap ==
    [id \in 1..5 |->
        CASE id = 1 -> DrawingElement(0, 60, 300, 40)
          [] id = 2 -> DrawingElement(0, 40, 7, 900)
          [] id = 3 -> DrawingElement(120, 80, 55, 5)
          [] id = 4 -> RelationshipElement(1, 2)
          [] OTHER -> RelationshipElement(3, 1)]

RerunConfigs ==
    {ConfigOf(s, defaultPadding, DefaultMargins, TRUE) : s \in Strategies}
    \cup {ConfigOf(s, 0, DefaultMargins, TRUE) : s \in Strategies \ {"Force"}}

InitRerun ==
    /\ obj = RerunHeap
    /\ elements \in {s \in SeqsUpTo(1..5, RerunMaxElems) : NoRepeat(s)}
    /\ InitEngine({SmallCanvas})

NextRerun ==
    \/ \E c \in RerunConfigs : ArrangeElements(c)
    \/ ArrangeElementsStored

SpecRerun == InitRerun /\ [][NextRerun]_vars

----------------------------------------------------------------------------
(* SpecOverlap: the overlap queries on two boxes and two connectors, box 2  *)
(* placed around box 1: apart, touching, overlapping and coincident         *)

OverlapSizes == {<<40, 30>>, <<0, 30>>}
OverlapXs == {40, 60, 100, 140, 160, 180}
OverlapYs == {100, 130, 150, 170}

\* connector 4 was given the position and the size of a box by its owner
OverlapHeap(size1, size2, x2, y2) ==
    [id \in 1..4 |->
        CASE id = 1 -> DrawingElement(size1[1], size1[2], 100, 100)
          [] id = 2 -> DrawingElement(size2[1], size2[2], x2, y2)
          [] id = 3 -> RelationshipElement(1, 2)
          [] OTHER -> [RelationshipElement(2, Null) EXCEPT
                           !.x = 100, !.y = 100, !.width = 40, !.height = 30]]

OverlapCollections == {<<1, 2, 3, 4>>, <<2, Null, 1>>, <<3, 4>>, <<1, 4, 2, 1>>}

OverlapConfigs == {ConfigOf("Grid", p, DefaultMargins, TRUE) : p \in {0, defaultPadding, -20}}

InitOverlap ==
    /\ obj \in {OverlapHeap(size1, size2, x2, y2) :
                    size1 \in OverlapSizes, size2 \in OverlapSizes,
                    x2 \in OverlapXs, y2 \in OverlapYs}
    /\ elements \in OverlapCollections
    /\ InitEngine({CanvasSize})

NextOverlap ==
    \/ \E elem1 \in 0..4, elem2 \in 0..4 : CheckOverlap(elem1, elem2)
    \/ CountOverlaps
    \/ \E c \in OverlapConfigs : SetLayoutConfig(c)

SpecOverlap == InitOverlap /\ [][NextOverlap]_vars

----------------------------------------------------------------------------
(* SpecCircle: the Circular strategy on one to six boxes of one size, on     *)
(* canvases that give a positive, a zero and a negative radius               *)

CircleSizes == {<<100, 60>>, <<120, 80>>}

\* six boxes of one size and a connector
CircleHeap(size) ==
    [id \in 1..7 |->
        IF id = 7 THEN RelationshipElement(1, 2)
        ELSE DrawingElement(size[1], size[2], 0, 0)]

CircleCollections ==
    {<<7>>, <<1>>, <<1, 2>>, <<2, 7, 1>>, <<1, 2, 3>>, <<1, 2, 3, 4>>,
     <<4, 3, 2, 1, 7>>, <<1, 2, 3, 4, 5>>, <<1, 2, 3, 4, 5, 6>>}

CircleCanvases ==
    {CanvasSize, SmallCanvas, [width |-> 300, height |-> 150],
     [width |-> 500, height |-> 800]}

CircleConfigs ==
    {ConfigOf("Circular", defaultPadding, DefaultMargins, TRUE),
     ConfigOf("Circular", 0, OtherMargins, FALSE)}

InitCircle ==
    /\ obj \in {CircleHeap(size) : size \in CircleSizes}
    /\ elements \in CircleCollections
    /\ InitEngine(CircleCanvases)

NextCircle == \E c \in CircleConfigs : ArrangeElements(c)

SpecCircle == InitCircle /\ [][NextCircle]_vars

----------------------------------------------------------------------------
(* SpecPadding: the overlap queries between calls that write the stored      *)
(* configuration, on boxes 10 and 15 units apart                             *)

\* box 2 is 10 units to the right of box 1, box 3 is 15 units below it
PaddingHeap ==
    [id \in 1..4 |->
        CASE id = 1 -> DrawingElement(40, 30, 100, 100)
          [] id = 2 -> DrawingElement(40, 30, 150, 100)
          [] id = 3 -> DrawingElement(40, 30, 100, 145)
          [] OTHER -> RelationshipElement(1, 2)]

\* the collections handed to arrangeElements and countOverlaps
PaddingCollections == {<<>>, <<4>>, <<1, 2, 3>>, <<3, 4, 1>>}

PaddingConfigs ==
    {ConfigOf("Grid", defaultPadding, DefaultMargins, TRUE),
     ConfigOf("Grid", 0, DefaultMargins, TRUE),
     ConfigOf("Circular", 12, OtherMargins, TRUE)}

InitPadding ==
    /\ obj = PaddingHeap
    /\ elements \in PaddingCollections
    /\ InitEngine({SmallCanvas})

NextPadding ==
    \/ \E c \in PaddingConfigs : ArrangeElements(c)
    \/ ArrangeElementsStored
    \/ \E c \in PaddingConfigs : SetLayoutConfig(c)
    \/ \E s \in {"Grid", "Circular"} : SetLayoutStrategy(s)
    \/ \E elem1 \in 1..3, elem2 \in 1..3 : CheckOverlap(elem1, elem2)
    \/ CountOverlaps

SpecPadding == InitPadding /\ [][NextPadding]_vars

----------------------------------------------------------------------------
(* Double arithmetic, for the sums, the products by a whole number and the   *)
(* quotients of the Grid layout and of the overlap test                      *)
(*                                                                           *)
(* A double d >= 0 that is a multiple of 2^-48 is written <<i, f1, f0>>,     *)
(* d = i + f1 / 2^24 + f0 / 2^48 with f1, f0 in 0 .. 2^24 - 1.  Every double *)
(* of at least 16 is such a multiple, and so is every exact sum of such      *)
(* values and every exact product of one by a whole number: the operators    *)
(* compute the exact value and round it to 53 significant bits, to nearest   *)
(* and to even on a tie, as the hardware does.                               *)

Limb == 4096 * 4096

RECURSIVE Pow2(_)
Pow2(n) == IF n <= 0 THEN 1 ELSE 2 * Pow2(n - 1)

RECURSIVE BitLen(_)
\* the number of bits of the whole number n >= 0
BitLen(n) == IF n = 0 THEN 0 ELSE 1 + BitLen(n \div 2)

\* the double of a whole number n >= 0
Whole(n) == <<n, 0, 0>>

\* the carries of the limbs taken into the next limb
Normalize(i, f1, f0) ==
    LET m1 == f1 + (f0 \div Limb)
    IN  <<i + (m1 \div Limb), m1 % Limb, f0 % Limb>>

\* a + b and n * a (n a whole number under 128), not rounded
ExactSum(a, b) == Normalize(a[1] + b[1], a[2] + b[2], a[3] + b[3])
ExactTimes(n, a) == Normalize(n * a[1], n * a[2], n * a[3])

\* a < b
DblLess(a, b) ==
    \/ a[1] < b[1]
    \/ a[1] = b[1] /\ a[2] < b[2]
    \/ a[1] = b[1] /\ a[2] = b[2] /\ a[3] < b[3]

\* std::max(a, b)
DblMax(a, b) == IF DblLess(a, b) THEN b ELSE a

\* v rounded to 53 significant bits: the whole part holds BitLen(v[1]) of them
\* and the fraction 48, so the lowest BitLen(v[1]) - 5 bits of f0 are dropped
RoundToDouble(v) ==
    LET dropped == BitLen(v[1]) - 5
        unit == Pow2(dropped)
        rest == v[3] % unit
        down == v[3] - rest
        odd == (v[3] \div unit) % 2 = 1
    IN  IF dropped <= 0 THEN v
        ELSE IF 2 * rest > unit \/ (2 * rest = unit /\ odd)
             THEN Normalize(v[1], v[2], down + unit)
             ELSE <<v[1], v[2], down>>

\* the double operators + and * (by a whole number)
DblAdd(a, b) == RoundToDouble(ExactSum(a, b))
DblTimes(n, a) == RoundToDouble(ExactTimes(n, a))

\* a > n for a whole number n of either sign
ExceedsWhole(a, n) == n < 0 \/ DblLess(Whole(n), a)

\* static_cast<int>(num / den) for a whole number num >= 0 and a double den > 0
\* with a quotient under 127: the whole part f of the exact quotient, or f + 1
\* when the quotient is so close under f + 1 that the division rounds to it
\* (within half a unit in the last place of the doubles under f + 1)
QuotientToInt(num, den) ==
    LET f == CHOOSE q \in 0..126 :
                 /\ ~DblLess(Whole(num), ExactTimes(q, den))
                 /\ DblLess(Whole(num), ExactTimes(q + 1, den))
        e == BitLen(f + 1) - 1
        t == IF f + 1 = Pow2(e) THEN 54 - e ELSE 53 - e
        slack == IF t >= 48 THEN den[1] \div Pow2(t - 48)
                 ELSE den[1] * Pow2(48 - t) + (den[2] \div Pow2(t - 24))
        over == ExactTimes(f + 1, den)
    IN  IF over[1] = num /\ over[2] = 0 /\ over[3] <= slack THEN f + 1 ELSE f

\* static_cast<int>(num / den) for a whole number num of either sign.  A zero
\* divisor makes the conversion undefined: the build yields the value ub.
DblCastQuotient(num, den, ub) ==
    IF den = Whole(0) THEN ub
    ELSE IF num < 0 THEN 0 - QuotientToInt(0 - num, den)
    ELSE QuotientToInt(num, den)

----------------------------------------------------------------------------
(* The Grid strategy and the overlap queries in double arithmetic: the       *)
(* canvas and the margins are whole numbers >= 0, the sizes, the padding and *)
(* the positions are doubles >= 0                                             *)

RECURSIVE DblMaxOver(_, _, _, _)
\* the running std::max from 0.0 over the Drawing elements, from index i on
DblMaxOver(o, drawings, field, i) ==
    IF i > Len(drawings) THEN Whole(0)
    ELSE DblMax(o[drawings[i]][field], DblMaxOver(o, drawings, field, i + 1))

\* the grid dimensions: the first sizing and, when it is too tall, the refit
GridSizingDouble(count, availableWidth, availableHeight, cellWidth, cellHeight, ub) ==
    LET cols0 == Max(1, DblCastQuotient(availableWidth, cellWidth, ub.cols))
        rows0 == CeilDiv(count, cols0)
        refit == ExceedsWhole(DblTimes(rows0, cellHeight), availableHeight)
        rows1 == Max(1, DblCastQuotient(availableHeight, cellHeight, ub.rows))
        cols1 == CeilDiv(count, rows1)
    IN  [rows |-> IF refit THEN rows1 ELSE rows0,
         cols |-> IF refit THEN cols1 ELSE cols0]

\* margin + n * cell: the product is rounded before the sum, unless the build
\* contracts the two operations into one fused multiply-add
MarginPlusCells(margin, n, cell, contract) ==
    IF contract THEN RoundToDouble(ExactSum(Whole(margin), ExactTimes(n, cell)))
    ELSE DblAdd(Whole(margin), DblTimes(n, cell))

RECURSIVE GridPlaceDouble(_, _, _, _, _, _, _, _, _, _)
\* the two nested placement loops, at (row, col) with `index` elements placed
GridPlaceDouble(o, drawings, cfg, g, cellWidth, cellHeight, contract, row, col, index) ==
    IF row >= g.rows \/ index >= Len(drawings) THEN o
    ELSE IF col >= g.cols
         THEN GridPlaceDouble(o, drawings, cfg, g, cellWidth, cellHeight, contract,
                              row + 1, 0, index)
    ELSE LET x == MarginPlusCells(cfg.marginLeft, col, cellWidth, contract)
             y == MarginPlusCells(cfg.marginTop, row, cellHeight, contract)
         IN  GridPlaceDouble(setPosition(o, drawings[index + 1], x, y), drawings, cfg, g,
                             cellWidth, cellHeight, contract, row, col + 1, index + 1)

arrangeGridDouble(o, elems, cs, cfg, ub, contract) ==
    LET drawings == getDrawingElements(o, elems)
        availableWidth == cs.width - cfg.marginLeft - cfg.marginRight
        availableHeight == cs.height - cfg.marginTop - cfg.marginBottom
        cellWidth == DblAdd(DblMaxOver(o, drawings, "width", 1), cfg.padding)
        cellHeight == DblAdd(DblMaxOver(o, drawings, "height", 1), cfg.padding)
        g == GridSizingDouble(Len(drawings), availableWidth, availableHeight,
                              cellWidth, cellHeight, ub)
    IN  IF Len(drawings) = 0
        THEN [obj |-> o, result |-> EmptyResult]
        ELSE [obj |-> GridPlaceDouble(o, drawings, cfg, g, cellWidth, cellHeight,
                                      contract, 0, 0, 0),
              result |-> [LayoutResult EXCEPT
                              !.success = TRUE,
                              !.elementsArranged = Len(drawings),
                              !.totalArea = availableWidth * availableHeight]]

\* the undefined values one call draws: one per cast when a cell size is 0
UndefinedCastsDouble(o, elems, cfg) ==
    LET drawings == getDrawingElements(o, elems)
    IN  IF /\ Len(drawings) > 0
           /\ \/ DblAdd(DblMaxOver(o, drawings, "width", 1), cfg.padding) = Whole(0)
              \/ DblAdd(DblMaxOver(o, drawings, "height", 1), cfg.padding) = Whole(0)
        THEN [cols : CastOutcomes, rows : CastOutcomes]
        ELSE {[cols |-> 0, rows |-> 0]}

\* Impl::checkOverlap
checkOverlapDouble(o, cfg, elem1, elem2) ==
    IF elem1 = Null \/ elem2 = Null THEN FALSE
    ELSE IF o[elem1].kind # "Drawing" \/ o[elem2].kind # "Drawing" THEN FALSE
    ELSE LET a == o[elem1]
             b == o[elem2]
             padding == cfg.padding
             overlapX == /\ DblLess(b.x, DblAdd(DblAdd(a.x, a.width), padding))
                         /\ DblLess(a.x, DblAdd(DblAdd(b.x, b.width), padding))
             overlapY == /\ DblLess(b.y, DblAdd(DblAdd(a.y, a.height), padding))
                         /\ DblLess(a.y, DblAdd(DblAdd(b.y, b.height), padding))
         IN  overlapX /\ overlapY

RECURSIVE CountLoopDouble(_, _, _, _, _, _)
\* the two nested loops of countOverlaps, at (i, j) (1-based) with count so far
CountLoopDouble(o, cfg, elems, i, j, count) ==
    IF i > Len(elems) THEN count
    ELSE IF j > Len(elems) THEN CountLoopDouble(o, cfg, elems, i + 1, i + 2, count)
    ELSE CountLoopDouble(o, cfg, elems, i, j + 1,
                         IF checkOverlapDouble(o, cfg, elems[i], elems[j])
                         THEN count + 1 ELSE count)

countOverlapsDouble(o, cfg, elems) == CountLoopDouble(o, cfg, elems, 1, 2, 0)

\* arrangeElements(elements, c) for a configuration c that selects arrangeGrid
ArrangeElementsDouble(c) ==
    \E ub \in UndefinedCastsDouble(obj, elements, c) : \E contract \in BOOLEAN :
        LET r == arrangeGridDouble(obj, elements, canvasSize, c, ub, contract)
        IN  /\ c.strategy \notin {"Hierarchical", "Force", "Circular"}
            /\ config' = c
            /\ obj' = r.obj
            /\ result' = r.result
            /\ lastOp' = "arrangeElements"
            /\ lastArg' = c
            /\ query' = NoQuery
            /\ configSet' = TRUE
            /\ UNCHANGED <<elements, canvasSize>>

\* countOverlaps(elements) on the engine
CountOverlapsDouble ==
    /\ query' = [elem1 |-> Null, elem2 |-> Null, overlap |-> FALSE,
                 count |-> countOverlapsDouble(obj, config, elements)]
    /\ lastOp' = "countOverlaps"
    /\ lastArg' = NoArg
    /\ UNCHANGED <<obj, elements, canvasSize, config, result, configSet>>

----------------------------------------------------------------------------
(* SpecDouble: the Grid layout followed by countOverlaps, on boxes whose     *)
(* sizes are not whole numbers                                               *)

\* the doubles nearest to 100.3, 100.7 and 64.1, and 40.5 and 16.5
Dbl100_3 == <<100, 5033164, 13421772>>
Dbl100_7 == <<100, 11744051, 3355444>>
Dbl64_1 == <<64, 1677721, 10066328>>
Dbl40_5 == <<40, 8388608, 0>>
Dbl16_5 == <<16, 8388608, 0>>

DoubleSizePatterns ==
    {[id \in 1..5 |-> <<Dbl100_3, Whole(60)>>],
     [id \in 1..5 |-> <<Whole(120), Whole(80)>>],
     <<<<Dbl100_7, Whole(60)>>, <<Dbl64_1, Dbl40_5>>, <<Whole(120), Whole(80)>>,
       <<Dbl100_3, Whole(60)>>, <<Dbl64_1, Dbl40_5>>>>}

\* five boxes, freshly constructed, and a connector
DoubleHeap(sizes) ==
    [id \in 1..6 |->
        IF id = 6 THEN RelationshipElement(1, 2)
        ELSE DrawingElement(sizes[id][1], sizes[id][2], Whole(0), Whole(0))]

DoubleCollections ==
    {<<1>>, <<1, 2>>, <<1, 6, 2, 3>>, <<1, 2, 3, 4>>, <<1, 2, 3, 4, 5, 6>>}

DoubleCanvases == {[width |-> 1600, height |-> 900], SmallCanvas}

DoubleConfigs ==
    {ConfigOf("Grid", p, DefaultMargins, TRUE) : p \in {Whole(20), Whole(30), Dbl16_5}}

\* the engine after either constructor, its padding written as a double
InitDouble ==
    /\ obj \in {DoubleHeap(sizes) : sizes \in DoubleSizePatterns}
    /\ elements \in DoubleCollections
    /\ canvasSize \in DoubleCanvases
    /\ config = [LayoutConfig EXCEPT !.padding = Whole(defaultPadding)]
    /\ result = LayoutResult
    /\ lastOp = "init"
    /\ lastArg = NoArg
    /\ configSet = FALSE
    /\ query = NoQuery

NextDouble ==
    \/ \E c \in DoubleConfigs : ArrangeElementsDouble(c)
    \/ CountOverlapsDouble

SpecDouble == InitDouble /\ [][NextDouble]_vars

----------------------------------------------------------------------------
(* Claims *)

\* the last step was a call of arrangeElements, with or without a configuration
Arranged == lastOp \in {"arrangeElements", "arrangeElementsStored"}

DrawingsOf(o, elems) == getDrawingElements(o, elems)

\* the entries of the collection that are non-null Drawing elements
DrawingEntries ==
    {i \in 1..Len(elements) : elements[i] # Null /\ obj[elements[i]].kind = "Drawing"}

\* C1: for each strategy, a call of arrangeElements on a collection without any
\* Drawing element (empty, or holding only Relationship elements and empty
\* pointers) returns success = true, elementsArranged = 0 and totalArea = 0 and
\* leaves the position and size of every element as they were.
C1_EmptyDrawingSubset ==
    [][(Arranged' /\ DrawingEntries = {})
          => /\ result'.success = TRUE
             /\ result'.elementsArranged = 0
             /\ result'.totalArea = 0
             /\ obj' = obj]_vars

\* a Force call on a collection of Relationship elements only has returned
C1_Witness ==
    /\ lastOp = "arrangeElements"
    /\ config.strategy = "Force"
    /\ Len(elements) = 2
    /\ \A i \in 1..Len(elements) :
           elements[i] # Null /\ obj[elements[i]].kind = "Relationship"
    /\ result.success /\ result.elementsArranged = 0

\* C2: for every strategy, arrangeElements changes nothing but the position of
\* the Drawing elements listed in the collection: the size, kind and connectors
\* of every element, the position of every Relationship element, the position
\* of every Drawing element outside the collection (also one a Relationship of
\* the collection refers to), the collection and the canvas size stay the same.
C2_Frame ==
    [][Arranged'
          => /\ DOMAIN obj' = DOMAIN obj
             /\ elements' = elements
             /\ canvasSize' = canvasSize
             /\ \A id \in DOMAIN obj :
                    /\ obj'[id].width = obj[id].width
                    /\ obj'[id].height = obj[id].height
                    /\ obj'[id].kind = obj[id].kind
                    /\ obj'[id].connector1 = obj[id].connector1
                    /\ obj'[id].connector2 = obj[id].connector2
                    /\ (obj[id].kind = "Relationship" \/ id \notin SeqRange(elements))
                           => (obj'[id].x = obj[id].x /\ obj'[id].y = obj[id].y)]_vars

\* a Hierarchical call has placed box 1 while box 2, the far end of the listed
\* connector 1 -> 2 and not in the collection, is where the caller left it
C2_Witness ==
    /\ lastOp = "arrangeElements"
    /\ config.strategy = "Hierarchical"
    /\ elements = <<1, 4>>
    /\ obj[4].connector1 = 1 /\ obj[4].connector2 = 2
    /\ obj[1].y = config.marginTop
    /\ obj[2].x = 0 /\ obj[2].y = 0

\* the default configuration, written out
C3_Defaults ==
    [strategy |-> "Grid", padding |-> 20, marginTop |-> 50, marginBottom |-> 50,
     marginLeft |-> 50, marginRight |-> 50, respectConnections |-> TRUE]

\* C3: after arrangeElements(elements, c) the stored configuration is c (also
\* when the Drawing subset is empty); arrangeElements(elements) right after it
\* gives the same positions and the same result; and on an engine no
\* configuration was written into, arrangeElements(elements) lays out with the
\* default configuration (Grid, padding 20, margins 50): the first box at
\* (50, 50), the second one cell to the right or one cell down.
C3_StoredConfig ==
    [][/\ lastOp' = "arrangeElements" => config' = lastArg'
       /\ (lastOp = "arrangeElements" /\ lastOp' = "arrangeElementsStored")
              => (obj' = obj /\ result' = result /\ config' = lastArg)
       /\ (~configSet /\ lastOp' = "arrangeElementsStored")
              => /\ config' = C3_Defaults
                 /\ LET d == DrawingsOf(obj, elements)
                        cw == MaxOver(obj, d, "width", 1) + 20
                        ch == MaxOver(obj, d, "height", 1) + 20
                    IN  /\ Len(d) >= 1 => (obj'[d[1]].x = 50 /\ obj'[d[1]].y = 50)
                        /\ Len(d) >= 2 =>
                               \/ (obj'[d[2]].x = 50 + cw /\ obj'[d[2]].y = 50)
                               \/ (obj'[d[2]].x = 50 /\ obj'[d[2]].y = 50 + ch)]_vars

\* arrangeElements(elements) has run on a stored configuration that is not the
\* default one and has placed two boxes
C3_Witness ==
    /\ lastOp = "arrangeElementsStored"
    /\ configSet
    /\ config.strategy = "Circular" /\ config.padding = 0 /\ config.marginLeft = 30
    /\ result.success /\ result.elementsArranged = 2

\* C4: every call of arrangeElements returns success = true with an empty
\* errorMessage, and elementsArranged is the number of entries of the
\* collection that are non-null Drawing elements.
C4_AlwaysSucceeds ==
    Arranged => /\ result.success = TRUE
                /\ result.errorMessage = ""
                /\ result.elementsArranged = Cardinality(DrawingEntries)

\* a call on a collection holding an empty pointer, a connector and one box
C4_Witness ==
    /\ lastOp = "arrangeElements"
    /\ Len(elements) = 3
    /\ \E i \in 1..3 : elements[i] = Null
    /\ \E i \in 1..3 : elements[i] # Null /\ obj[elements[i]].kind = "Relationship"
    /\ result.success /\ result.elementsArranged = 1

----------------------------------------------------------------------------
(* Claims about the Grid strategy (SpecGrid) *)

GridBoxes == DrawingsOf(obj, elements)
AvailableWidth == canvasSize.width - config.marginLeft - config.marginRight
AvailableHeight == canvasSize.height - config.marginTop - config.marginBottom
CellWidth == MaxOver(obj, GridBoxes, "width", 1) + config.padding
CellHeight == MaxOver(obj, GridBoxes, "height", 1) + config.padding

\* the grid the call computed (no cast is undefined when both cells are non-zero)
ComputedGrid ==
    GridSizing(Len(GridBoxes), AvailableWidth, AvailableHeight, CellWidth, CellHeight,
               [cols |-> 0, rows |-> 0])

\* the column count of section 4.3, steps 4 and 5, for positive cells and areas
C5_Cols ==
    LET n == Len(GridBoxes)
        cols0 == IF AvailableWidth \div CellWidth < 1 THEN 1
                 ELSE AvailableWidth \div CellWidth
        rows0 == (n + cols0 - 1) \div cols0
        rows1 == IF AvailableHeight \div CellHeight < 1 THEN 1
                 ELSE AvailableHeight \div CellHeight
    IN  IF rows0 * CellHeight > AvailableHeight THEN (n + rows1 - 1) \div rows1 ELSE cols0

\* C5: Grid places the i-th Drawing element (i from 0, counted among the Drawing
\* elements in input order) at x = marginLeft + (i mod cols) * cellWidth and
\* y = marginTop + (i div cols) * cellHeight; five 120 x 80 boxes and four
\* connectors on 1600 x 900 with padding 30 and margins 50 land at x = 50, 200,
\* 350, 500, 650 and y = 50, with elementsArranged = 5.
C5_GridPlacement ==
    (lastOp = "arrangeElements" /\ CellWidth > 0 /\ CellHeight > 0)
        => /\ \A i \in 0..(Len(GridBoxes) - 1) :
                  /\ obj[GridBoxes[i + 1]].x
                         = config.marginLeft + (i % C5_Cols) * CellWidth
                  /\ obj[GridBoxes[i + 1]].y
                         = config.marginTop + (i \div C5_Cols) * CellHeight
           /\ (/\ canvasSize = [width |-> 1600, height |-> 900]
               /\ config.padding = 30
               /\ config.marginLeft = 50 /\ config.marginRight = 50
               /\ config.marginTop = 50 /\ config.marginBottom = 50
               /\ Len(elements) = 9 /\ Len(GridBoxes) = 5
               /\ \A i \in 1..5 : obj[i].width = 120 /\ obj[i].height = 80)
                  => /\ \A i \in 1..5 : obj[GridBoxes[i]].x = 50 + 150 * (i - 1)
                     /\ \A i \in 1..5 : obj[GridBoxes[i]].y = 50
                     /\ result.elementsArranged = 5

\* the example of the claim has been laid out; and so has a grid of two rows
C5_Witness ==
    /\ lastOp = "arrangeElements"
    /\ canvasSize = [width |-> 1600, height |-> 900]
    /\ config.padding = 30 /\ config.marginLeft = 50 /\ config.marginTop = 50
    /\ elements = BoxesThenConnectors(5)
    /\ obj[1].width = 120 /\ obj[1].height = 80
    /\ obj[5].x = 650 /\ obj[5].y = 50
    /\ result.elementsArranged = 5

IdenticalSizes ==
    \A i, j \in 1..Len(GridBoxes) :
        /\ obj[GridBoxes[i]].width = obj[GridBoxes[j]].width
        /\ obj[GridBoxes[i]].height = obj[GridBoxes[j]].height

GridFitsCanvas ==
    /\ ComputedGrid.cols * CellWidth <= AvailableWidth
    /\ ComputedGrid.rows * CellHeight <= AvailableHeight

\* every box inside the margins, and no two boxes at the same cell origin
BoxesInsideAndApart ==
    /\ \A i \in 1..Len(GridBoxes) :
           LET b == obj[GridBoxes[i]]
           IN  /\ config.marginLeft <= b.x
               /\ b.x + b.width <= canvasSize.width - config.marginRight
               /\ config.marginTop <= b.y
               /\ b.y + b.height <= canvasSize.height - config.marginBottom
    /\ \A i, j \in 1..Len(GridBoxes) :
           i < j => <<obj[GridBoxes[i]].x, obj[GridBoxes[i]].y>>
                        # <<obj[GridBoxes[j]].x, obj[GridBoxes[j]].y>>

\* C6 as stated: Grid with n identical-size boxes whose computed grid satisfies
\* cols * cellWidth <= availableWidth and rows * cellHeight <= availableHeight
\* puts every box inside the margins and no two boxes in the same cell.
C6_AsStated ==
    (lastOp = "arrangeElements" /\ IdenticalSizes /\ GridFitsCanvas)
        => BoxesInsideAndApart

\* C6 as amended: the same, for boxes of non-negative size, padding >= 0 and
\* positive cell width and height.
C6_InsideWhenGridFits ==
    (/\ lastOp = "arrangeElements" /\ IdenticalSizes /\ GridFitsCanvas
     /\ config.padding >= 0 /\ CellWidth > 0 /\ CellHeight > 0
     /\ \A i \in 1..Len(GridBoxes) :
            obj[GridBoxes[i]].width >= 0 /\ obj[GridBoxes[i]].height >= 0)
        => BoxesInsideAndApart

\* five identical boxes, padding 0, laid out in a grid of two rows that fits
C6_Witness ==
    /\ lastOp = "arrangeElements"
    /\ IdenticalSizes /\ GridFitsCanvas
    /\ config.padding = 0
    /\ Len(GridBoxes) = 5
    /\ ComputedGrid.rows = 2
    /\ obj[GridBoxes[5]].y = config.marginTop + CellHeight

NonNegativeInputs ==
    /\ config.padding >= 0
    /\ config.marginLeft >= 0 /\ config.marginRight >= 0
    /\ config.marginTop >= 0 /\ config.marginBottom >= 0
    /\ \A i \in 1..Len(GridBoxes) :
           obj[GridBoxes[i]].width >= 0 /\ obj[GridBoxes[i]].height >= 0

\* the recomputed grid is no taller than the available height, and no cell
\* reaches below canvasHeight - marginBottom
GridFitsVertically ==
    /\ ComputedGrid.rows * CellHeight <= AvailableHeight
    /\ \A i \in 1..Len(GridBoxes) :
           obj[GridBoxes[i]].y + CellHeight <= canvasSize.height - config.marginBottom

\* C7 as stated: with sizes, padding and margins >= 0, whenever the first grid
\* is taller than availableHeight the recomputed grid fits vertically.
C7_AsStated ==
    (/\ lastOp = "arrangeElements" /\ Len(GridBoxes) > 0 /\ NonNegativeInputs
     /\ ComputedGrid.firstRows * CellHeight > AvailableHeight)
        => GridFitsVertically

\* C7 as amended: the same, when at least one row fits
\* (cellHeight <= availableHeight).
C7_RefitFitsVertically ==
    (/\ lastOp = "arrangeElements" /\ Len(GridBoxes) > 0 /\ NonNegativeInputs
     /\ ComputedGrid.firstRows * CellHeight > AvailableHeight
     /\ CellHeight <= AvailableHeight)
        => GridFitsVertically

\* a grid first sized too tall was recomputed to one row of five columns
C7_Witness ==
    /\ lastOp = "arrangeElements"
    /\ NonNegativeInputs
    /\ ComputedGrid.firstRows * CellHeight > AvailableHeight
    /\ CellHeight <= AvailableHeight
    /\ ComputedGrid.firstCols = 2 /\ ComputedGrid.rows = 1 /\ ComputedGrid.cols = 5
    /\ obj[GridBoxes[5]].x = config.marginLeft + 4 * CellWidth

----------------------------------------------------------------------------
(* Claims about the Hierarchical strategy (SpecHier) *)

\* the Relationship elements of the collection
CollectionRelationships ==
    {elements[i] : i \in {j \in 1..Len(elements) :
                            elements[j] # Null /\ obj[elements[j]].kind = "Relationship"}}

\* the Drawing elements of the collection
CollectionDrawings == {elements[i] : i \in DrawingEntries}

\* the Relationship elements of the collection that point at d
Incoming(d) == {r \in CollectionRelationships : obj[r].connector2 = d}

IsRoot(d) == d \in CollectionDrawings /\ Incoming(d) = {}

HierarchicalDone == lastOp = "arrangeElements" /\ config.strategy = "Hierarchical"

\* C8: under Hierarchical every root (a Drawing element of the collection that
\* is connector2 of no Relationship in the collection) is placed at
\* y = marginTop, whatever the collection and the order of its Relationships.
C8_RootsAtMarginTop ==
    HierarchicalDone
        => \A d \in CollectionDrawings : IsRoot(d) => obj[d].y = config.marginTop

\* a chain 1 -> 2 -> 3 listed child link first: the root on the first row, box 2
\* one row below
C8_Witness ==
    /\ HierarchicalDone
    /\ elements = <<3, 1, 2, 4, 5>>
    /\ obj[4].connector1 = 2 /\ obj[4].connector2 = 3
    /\ obj[5].connector1 = 1 /\ obj[5].connector2 = 2
    /\ IsRoot(1) /\ ~IsRoot(2) /\ ~IsRoot(3)
    /\ obj[1].y = config.marginTop
    /\ obj[2].y = config.marginTop + verticalSpacing

\* C9 as stated: under Hierarchical a Drawing element of the collection that is
\* connector2 of a Relationship whose connector1 is a root is placed at
\* y = marginTop + 150.
C9_AsStated ==
    HierarchicalDone
        => \A d \in CollectionDrawings :
               (\E r \in Incoming(d) : IsRoot(obj[r].connector1))
                   => obj[d].y = config.marginTop + 150

\* C9 as amended: under Hierarchical a Drawing element of the collection with at
\* least one incoming Relationship in the collection, every one of them having a
\* root as connector1, is placed at y = marginTop + 150.
C9_ChildOfRootsOnly ==
    HierarchicalDone
        => \A d \in CollectionDrawings :
               (/\ Incoming(d) # {}
                /\ \A r \in Incoming(d) : IsRoot(obj[r].connector1))
                   => obj[d].y = config.marginTop + 150

\* box 3 is the child of the two roots 1 and 2 and sits one row below them
C9_Witness ==
    /\ HierarchicalDone
    /\ IsRoot(1) /\ IsRoot(2)
    /\ Incoming(3) = {4, 5}
    /\ obj[4].connector1 = 1 /\ obj[5].connector1 = 2
    /\ obj[3].y = config.marginTop + 150
    /\ obj[1].y = config.marginTop /\ obj[2].y = config.marginTop

\* C10: under Hierarchical, when no Drawing element of the collection is a root
\* (each one is connector2 of some Relationship of the collection), every
\* Drawing element is placed at y = marginTop.
C10_NoRootsSingleLevel ==
    (/\ HierarchicalDone
     /\ CollectionDrawings # {}
     /\ \A d \in CollectionDrawings : ~IsRoot(d))
        => \A d \in CollectionDrawings : obj[d].y = config.marginTop

----------------------------------------------------------------------------
(* Claims about the Force strategy (SpecForce) *)

ForceDone == lastOp = "arrangeElements" /\ config.strategy = "Force"

\* the heap at the end of the n-th iteration of the call that produced this
\* state (the seeding overwrites the positions, the sizes are not written)
AfterIteration(n) ==
    LET drawings == getDrawingElements(obj, elements)
        relationships == getRelationshipElements(obj, elements)
    IN  ForceLoop([iter |-> iterations - n,
                   obj |-> SeedPositions(obj, drawings, canvasSize, 0)],
                  drawings, relationships, canvasSize, config)

IterationsObserved == {1, 2, 3, iterations}

XInBounds(o, d) ==
    /\ config.marginLeft <= o[d].x
    /\ o[d].x <= canvasSize.width - config.marginRight - o[d].width

YInBounds(o, d) ==
    /\ config.marginTop <= o[d].y
    /\ o[d].y <= canvasSize.height - config.marginBottom - o[d].height

\* C11 as stated: after a Force layout, and at the end of each iteration, every
\* Drawing element of the collection has marginLeft <= x <= canvasWidth -
\* marginRight - width and marginTop <= y <= canvasHeight - marginBottom - height.
C11_AsStated ==
    (ForceDone /\ CollectionDrawings # {})
        => /\ AfterIteration(iterations) = obj
           /\ \A n \in IterationsObserved : \A d \in CollectionDrawings :
                  XInBounds(AfterIteration(n), d) /\ YInBounds(AfterIteration(n), d)

\* C11 as amended: after a Force layout, and at the end of each iteration, a
\* Drawing element of the collection no wider than the usable width has
\* marginLeft <= x <= canvasWidth - marginRight - width, and one no taller than
\* the usable height has marginTop <= y <= canvasHeight - marginBottom - height.
C11_ClampedWhenFits ==
    (ForceDone /\ CollectionDrawings # {})
        => /\ AfterIteration(iterations) = obj
           /\ \A n \in IterationsObserved : \A d \in CollectionDrawings :
                  /\ obj[d].width <= AvailableWidth => XInBounds(AfterIteration(n), d)
                  /\ obj[d].height <= AvailableHeight => YInBounds(AfterIteration(n), d)

\* box 1 fits SmallCanvas and was seeded outside the bounds, box 2 is wider than
\* the usable width: box 1 ends inside, box 2 at the left margin
C11_Witness ==
    /\ ForceDone
    /\ canvasSize = SmallCanvas
    /\ elements = <<1, 4, 2>>
    /\ obj[4].connector1 = 1 /\ obj[4].connector2 = 2
    /\ XInBounds(obj, 1) /\ YInBounds(obj, 1)
    /\ ~XInBounds(SeedPositions(obj, <<1, 2>>, canvasSize, 0), 1)
    /\ obj[2].width > AvailableWidth
    /\ obj[2].x = config.marginLeft

----------------------------------------------------------------------------
(* Claims about repeated calls (SpecRerun) *)

----------------------------------------------------------------------------
(* Claims about Relationship elements without effect (SpecHier) *)

\* the collection with the entries holding element r removed
Without(elems, r) == SelectSeq(elems, LAMBDA e : e # r)

\* laying out the collection without r writes the positions of this state
SameLayoutWithout(r) ==
    \E ub \in UndefinedCasts(obj, Without(elements, r), canvasSize, config) :
        Dispatch(obj, Without(elements, r), canvasSize, config, ub).obj = obj

\* C13: a Relationship of the collection whose connector1 or connector2 is
\* unset has no effect: the positions after arrangeElements are those obtained
\* from the same collection with that Relationship removed.
C13_UnsetEndpointNoEffect ==
    lastOp = "arrangeElements"
        => \A r \in CollectionRelationships :
               (obj[r].connector1 = Null \/ obj[r].connector2 = Null)
                   => SameLayoutWithout(r)

\* r has an endpoint that is set and is not a Drawing element of the collection
RefersOutside(r) ==
    \/ obj[r].connector1 # Null /\ obj[r].connector1 \notin CollectionDrawings
    \/ obj[r].connector2 # Null /\ obj[r].connector2 \notin CollectionDrawings

\* C20: a Relationship of the collection that references a Drawing element
\* which is not in the collection is a no-op: the positions after
\* arrangeElements are those obtained from the same collection with that
\* Relationship removed.
C20_OutsideEndpointNoEffect ==
    lastOp = "arrangeElements"
        => \A r \in CollectionRelationships : RefersOutside(r) => SameLayoutWithout(r)

----------------------------------------------------------------------------
(* Claims about the dispatch (SpecArrange) *)

\* the outcomes of the Grid algorithm for configuration cfg on the current heap
GridOutcomes(cfg) ==
    {arrangeGrid(obj, elements, canvasSize, cfg, ub) :
         ub \in [cols : CastOutcomes, rows : CastOutcomes]}

\* C14: arrangeElements runs exactly the algorithm selected by config.strategy,
\* and a strategy value that is none of the four gives exactly the Grid result
\* for the same collection, configuration and canvas.
C14_Dispatch ==
    [][lastOp' = "arrangeElements"
         => LET out == [obj |-> obj', result |-> result']
                cfg == config'
            IN  /\ cfg.strategy = "Grid" => out \in GridOutcomes(cfg)
                /\ cfg.strategy = "Hierarchical"
                       => out = arrangeHierarchical(obj, elements, canvasSize, cfg)
                /\ cfg.strategy = "Force"
                       => out = arrangeForce(obj, elements, canvasSize, cfg)
                /\ cfg.strategy = "Circular"
                       => out = arrangeCircular(obj, elements, canvasSize, cfg)
                /\ cfg.strategy \notin Strategies
                       => out \in GridOutcomes([cfg EXCEPT !.strategy = "Grid"])]_vars

\* an unrecognized strategy value has laid two boxes out side by side, as Grid does
C14_Witness ==
    /\ lastOp = "arrangeElements"
    /\ config.strategy \notin Strategies
    /\ elements = <<1, 4, 2>>
    /\ result.elementsArranged = 2
    /\ obj[1].x = config.marginLeft /\ obj[1].y = config.marginTop
    /\ obj[2].x = config.marginLeft + 120 + config.padding
    /\ obj[2].y = config.marginTop

----------------------------------------------------------------------------
(* Claims about the overlap queries (SpecOverlap) *)

Checked == lastOp = "checkOverlap"

IsDrawing(e) == e # Null /\ obj[e].kind = "Drawing"

BothDrawings == IsDrawing(query.elem1) /\ IsDrawing(query.elem2)

\* C15: checkOverlap(a, b) returns false whenever a or b is absent or is a
\* Relationship element, whatever the positions, sizes and padding.
C15_FalseUnlessTwoDrawings ==
    (Checked /\ ~BothDrawings) => query.overlap = FALSE

\* connector 4 lies exactly on box 1 and has its size, and is not reported
C15_Witness ==
    /\ Checked
    /\ query.elem1 = 4 /\ query.elem2 = 1
    /\ obj[4].x = obj[1].x /\ obj[4].y = obj[1].y
    /\ obj[4].width = obj[1].width /\ obj[4].height = obj[1].height
    /\ config.padding = 20
    /\ query.overlap = FALSE

\* the two boxes of the query have the same position and the same size >= 0
Coincident ==
    LET a == obj[query.elem1]
        b == obj[query.elem2]
    IN  /\ a.x = b.x /\ a.y = b.y
        /\ a.width = b.width /\ a.height = b.height
        /\ a.width >= 0 /\ a.height >= 0

\* C16 as stated: checkOverlap returns true for two Drawing elements whose
\* boxes are exactly coincident (sizes >= 0) whenever the padding is >= 0.
C16_AsStated ==
    (Checked /\ BothDrawings /\ Coincident /\ config.padding >= 0)
        => query.overlap = TRUE

\* C16 as amended: the same, when width + padding > 0 and height + padding > 0.
C16_CoincidentOverlap ==
    (/\ Checked /\ BothDrawings /\ Coincident /\ config.padding >= 0
     /\ obj[query.elem1].width + config.padding > 0
     /\ obj[query.elem1].height + config.padding > 0)
        => query.overlap = TRUE

\* two different boxes of width 0 on the same spot, padding 20: reported
C16_Witness ==
    /\ Checked
    /\ query.elem1 = 1 /\ query.elem2 = 2
    /\ Coincident
    /\ obj[1].width = 0 /\ obj[1].height = 30
    /\ config.padding = 20
    /\ query.overlap = TRUE

\* twice the distance of the centers exceeds the sum of the extents plus twice
\* the padding, on the x axis and on the y axis
SeparatedX ==
    LET a == obj[query.elem1]
        b == obj[query.elem2]
    IN  Abs((2 * a.x + a.width) - (2 * b.x + b.width)) > a.width + b.width + 2 * config.padding

SeparatedY ==
    LET a == obj[query.elem1]
        b == obj[query.elem2]
    IN  Abs((2 * a.y + a.height) - (2 * b.y + b.height))
            > a.height + b.height + 2 * config.padding

\* C17: when two Drawing boxes are separated on at least one axis (the distance
\* of their centers on that axis exceeds half the sum of their extents on it plus
\* the padding), checkOverlap returns false, in either argument order.
C17_SeparatedNoOverlap ==
    (Checked /\ BothDrawings /\ (SeparatedX \/ SeparatedY)) => query.overlap = FALSE

\* box 2 asked first: level with box 1 on the y axis, apart from it on the x axis
C17_Witness ==
    /\ Checked
    /\ query.elem1 = 2 /\ query.elem2 = 1
    /\ SeparatedX /\ ~SeparatedY
    /\ obj[2].y = obj[1].y /\ obj[2].x = 180 /\ obj[1].width = 40
    /\ config.padding = 20
    /\ query.overlap = FALSE

\* C18: checkOverlap and countOverlaps are read-only: the elements, the
\* collection, the canvas size and the stored configuration are after the call
\* what they were before it.
C18_QueriesReadOnly ==
    [][lastOp' \in {"checkOverlap", "countOverlaps"}
         => UNCHANGED <<obj, elements, canvasSize, config>>]_vars

\* a count over a collection with an empty pointer, after a configuration was
\* stored, found the overlapping pair and left the collection as it was
C18_Witness ==
    /\ lastOp = "countOverlaps"
    /\ elements = <<2, Null, 1>>
    /\ config.padding = 0 /\ configSet
    /\ query.count = 1

----------------------------------------------------------------------------
(* Claims about the level assignment (SpecHier) *)

\* the Relationship elements of the collection, in collection order
RelationshipsInOrder ==
    SelectSeq(elements, LAMBDA e : e # Null /\ obj[e].kind = "Relationship")

\* the levels of the single pass: start[d] = 0 for the roots (for every Drawing
\* element when there is no root), then one visit per Relationship in order
SinglePassLevels ==
    LET rels == RelationshipsInOrder
        roots == {d \in CollectionDrawings : IsRoot(d)}
        start == [d \in (IF roots = {} THEN CollectionDrawings ELSE roots) |-> 0]
        after[i \in 0..Len(rels)] ==
            IF i = 0 THEN start
            ELSE LET before == after[i - 1]
                     parent == obj[rels[i]].connector1
                     child == obj[rels[i]].connector2
                 IN  IF parent # Null /\ child # Null /\ parent \in DOMAIN before
                     THEN [e \in DOMAIN before \cup {child} |->
                               IF e = child THEN before[parent] + 1 ELSE before[e]]
                     ELSE before
    IN  after[Len(rels)]

\* C19: under Hierarchical the level of each Drawing element is the result of
\* one pass: roots (all Drawing elements when there is no root) start at level
\* 0; each Relationship, visited once in collection order, with both endpoints
\* set and a connector1 that has a level at that moment sets level(connector2) =
\* level(connector1) + 1, the last assignment winning; Drawing elements left
\* without a level get level 0.  Every element sits on the row of that level.
C19_SinglePassLevels ==
    HierarchicalDone
        => \A d \in CollectionDrawings :
               obj[d].y = config.marginTop
                          + 150 * (IF d \in DOMAIN SinglePassLevels
                                   THEN SinglePassLevels[d] ELSE 0)

\* the link 2 -> 3 is listed before the link 1 -> 2: box 2 has no level when it
\* is visited, so box 3 gets none and sits on the first row; box 2, child of the
\* root 1 and then of itself, keeps the level of its last link
C19_Witness ==
    /\ HierarchicalDone
    /\ elements = <<1, 2, 3, 4, 5, 6>>
    /\ obj[4].connector1 = 2 /\ obj[4].connector2 = 3
    /\ obj[5].connector1 = 1 /\ obj[5].connector2 = 2
    /\ obj[6].connector1 = 2 /\ obj[6].connector2 = 2
    /\ obj[1].y = config.marginTop
    /\ obj[3].y = config.marginTop
    /\ obj[2].y = config.marginTop + 300

----------------------------------------------------------------------------
(* Claims about the grid dimensions (SpecGrid) *)

\* the cells (row, col) of the computed grid
GridCells == (0..(ComputedGrid.rows - 1)) \X (0..(ComputedGrid.cols - 1))

\* the box sits at the origin of cell c
AtCell(box, c) ==
    /\ obj[box].x = config.marginLeft + c[2] * CellWidth
    /\ obj[box].y = config.marginTop + c[1] * CellHeight

\* C21: under Grid with positive cell width and height the first sizing and the
\* recomputed one have cols >= 1, rows >= 1 and rows * cols >= the number of
\* Drawing elements, so each Drawing element of the collection is assigned a
\* cell, and Drawing elements at different indices are assigned different cells.
C21_GridHoldsEveryBox ==
    (/\ lastOp = "arrangeElements" /\ Len(GridBoxes) > 0
     /\ CellWidth > 0 /\ CellHeight > 0)
        => /\ ComputedGrid.firstCols >= 1 /\ ComputedGrid.firstRows >= 1
           /\ ComputedGrid.firstRows * ComputedGrid.firstCols >= Len(GridBoxes)
           /\ ComputedGrid.cols >= 1 /\ ComputedGrid.rows >= 1
           /\ ComputedGrid.rows * ComputedGrid.cols >= Len(GridBoxes)
           /\ \A i \in 1..Len(GridBoxes) : \E c \in GridCells : AtCell(GridBoxes[i], c)
           /\ \A i, j \in 1..Len(GridBoxes) :
                  i # j => ~\E c \in GridCells : AtCell(GridBoxes[i], c) /\ AtCell(GridBoxes[j], c)

\* five boxes, first sized 2 columns by 3 rows, too tall, recomputed to 2 rows
\* by 3 columns; the fifth box is in the middle of the second row
C21_Witness ==
    /\ lastOp = "arrangeElements"
    /\ Len(GridBoxes) = 5
    /\ CellWidth > 0 /\ CellHeight > 0
    /\ ComputedGrid.firstCols = 2 /\ ComputedGrid.firstRows = 3
    /\ ComputedGrid.refit
    /\ ComputedGrid.rows = 2 /\ ComputedGrid.cols = 3
    /\ AtCell(GridBoxes[5], <<1, 1>>)

----------------------------------------------------------------------------
(* Claims about the overlap test and the count (SpecOverlap) *)

\* the four strict inequalities for boxes a and b with padding p
FourInequalities(a, b, p) ==
    /\ a.x + a.width + p > b.x
    /\ b.x + b.width + p > a.x
    /\ a.y + a.height + p > b.y
    /\ b.y + b.height + p > a.y

\* the inflated right edge of a lies exactly on the left edge of b
TouchingOnX(a, b, p) == a.x + a.width + p = b.x

\* C22: for two Drawing elements checkOverlap(a, b) is true exactly when
\* a.x + a.width + p > b.x, b.x + b.width + p > a.x, a.y + a.height + p > b.y and
\* b.y + b.height + p > a.y hold with the engine's padding p; boxes whose
\* inflated edges merely touch do not overlap.
C22_FourStrictInequalities ==
    (Checked /\ BothDrawings)
        => /\ query.overlap
                  = FourInequalities(obj[query.elem1], obj[query.elem2], config.padding)
           /\ TouchingOnX(obj[query.elem1], obj[query.elem2], config.padding)
                  => query.overlap = FALSE

\* box 2 starts where the inflated right edge of box 1 ends (100 + 40 + 20), on
\* the same row: not reported
C22_Witness ==
    /\ Checked
    /\ query.elem1 = 1 /\ query.elem2 = 2
    /\ config.padding = 20
    /\ obj[1].width = 40 /\ obj[2].x = 160 /\ obj[2].y = obj[1].y
    /\ TouchingOnX(obj[1], obj[2], config.padding)
    /\ query.overlap = FALSE

\* the index pairs i < j of the collection whose entries are two Drawing
\* elements satisfying the four inequalities
OverlappingPairs ==
    {pr \in (1..Len(elements)) \X (1..Len(elements)) :
        /\ pr[1] < pr[2]
        /\ IsDrawing(elements[pr[1]]) /\ IsDrawing(elements[pr[2]])
        /\ FourInequalities(obj[elements[pr[1]]], obj[elements[pr[2]]], config.padding)}

\* C23: countOverlaps(elements) is the number of index pairs i < j for which
\* checkOverlap(elements[i], elements[j]) is true, null entries and Relationship
\* elements contributing nothing; it is 0 for a collection holding only
\* Relationship elements.
C23_CountsPairsOnce ==
    lastOp = "countOverlaps"
        => /\ query.count = Cardinality(OverlappingPairs)
           /\ (\A i \in 1..Len(elements) : ~IsDrawing(elements[i])) => query.count = 0

\* box 1 is listed twice around connector 4 (which lies on it) and box 2, all
\* overlapping: the three pairs of boxes are counted, each once
C23_Witness ==
    /\ lastOp = "countOverlaps"
    /\ elements = <<1, 4, 2, 1>>
    /\ obj[4].x = obj[1].x /\ obj[4].width = 40
    /\ query.count = 3

----------------------------------------------------------------------------
(* Claims about the rows of the Hierarchical layout (SpecHier) *)

LevelOfBox(d) == IF d \in DOMAIN SinglePassLevels THEN SinglePassLevels[d] ELSE 0

\* the Drawing elements of one level, in input order
BoxesAtLevel(level) == SelectSeq(GridBoxes, LAMBDA d : LevelOfBox(d) = level)

\* x is marginLeft + (i + 1) * availableWidth / (k + 1) - width / 2, the fraction
\* of the quotient dropped: with n / den the exact offset, den > 0
IsTruncatedOffset(x, n, den) ==
    LET dx == x - config.marginLeft
    IN  IF n >= 0 THEN dx * den <= n /\ n < dx * den + den
        ELSE dx * den >= n /\ n > dx * den - den

\* C24: under Hierarchical a level holding k Drawing elements places its i-th
\* element (i from 0, in input order) at x = marginLeft + (i + 1) *
\* availableWidth / (k + 1) - width / 2 and y = marginTop + 150 * level, with
\* availableWidth = canvasWidth - marginLeft - marginRight.
C24_SlotsOfALevel ==
    HierarchicalDone
        => \A level \in 0..HierMaxRels :
               LET row == BoxesAtLevel(level)
                   kk == Len(row)
               IN  \A i \in 0..(kk - 1) :
                       /\ obj[row[i + 1]].y = config.marginTop + 150 * level
                       /\ IsTruncatedOffset(obj[row[i + 1]].x,
                                            2 * (i + 1) * AvailableWidth
                                                - obj[row[i + 1]].width * (kk + 1),
                                            2 * (kk + 1))

\* boxes 1 and 3 share the first row, box 2 is alone on the second: its center
\* is in the middle of the available width, and the centers of the first row
\* are at one third and two thirds of it
C24_Witness ==
    /\ HierarchicalDone
    /\ elements = <<1, 2, 3, 4>>
    /\ obj[4].connector1 = 1 /\ obj[4].connector2 = 2
    /\ AvailableWidth = 1820
    /\ obj[2].y = config.marginTop + 150
    /\ obj[2].x + 50 = config.marginLeft + 910
    /\ obj[1].y = config.marginTop /\ obj[3].y = config.marginTop
    /\ obj[1].x + 60 = config.marginLeft + 606
    /\ obj[3].x + 30 = config.marginLeft + 1213

----------------------------------------------------------------------------
(* Claims about config.respectConnections (SpecArrange) *)

\* cfg with respectConnections changed and nothing else
OtherRespectConnections(cfg) ==
    [cfg EXCEPT !.respectConnections = ~cfg.respectConnections]

\* what arrangeElements can produce from the current state under cfg
OutcomesUnder(cfg) ==
    {Dispatch(obj, elements, canvasSize, cfg, ub) :
         ub \in UndefinedCasts(obj, elements, canvasSize, cfg)}

----------------------------------------------------------------------------
(* Claims about the number of Force iterations (SpecForce) *)

\* the seeded heap of the call that produced this state
Seeded == SeedPositions(obj, getDrawingElements(obj, elements), canvasSize, 0)

\* the loop of the call that produced this state, from its seeded heap
ThisRun ==
    ForceRun([iter |-> 0, obj |-> Seeded], getDrawingElements(obj, elements),
             getRelationshipElements(obj, elements), canvasSize, config)

\* one more iteration from heap o
OneMore(o) ==
    ForceIteration(o, getDrawingElements(obj, elements),
                   getRelationshipElements(obj, elements), canvasSize, config)

RECURSIVE RelaxedFrom(_)
\* st.left more iterations from heap st.obj
RelaxedFrom(st) ==
    IF st.left = 0 THEN st.obj
    ELSE RelaxedFrom([left |-> st.left - 1, obj |-> OneMore(st.obj)])

\* the heap after n iterations from the seeded heap
Relaxed(n) == RelaxedFrom([left |-> n, obj |-> Seeded])

\* C26: arrangeElements with Force on a non-empty Drawing subset leaves the
\* loop after exactly 50 iterations, for every input: the positions are those
\* of the 50th iteration, whether or not an earlier iteration had stopped
\* moving the elements and whether or not a 51st would move them.
C26_ExactlyFiftyIterations ==
    (ForceDone /\ CollectionDrawings # {})
        => /\ iterations = 50
           /\ ThisRun.iter = iterations
           /\ ThisRun.obj = obj
           /\ Relaxed(iterations) = obj

\* a layout that was stable from its second iteration on
C26_Witness ==
    /\ ForceDone
    /\ Cardinality(CollectionDrawings) >= 2
    /\ Relaxed(1) # Relaxed(2)
    /\ Relaxed(2) = Relaxed(3)
    /\ Relaxed(iterations) = obj

----------------------------------------------------------------------------
(* Claims about the Circular strategy (SpecCircle) *)

CircularDone == lastOp = "arrangeElements" /\ config.strategy = "Circular"

\* min(availableWidth, availableHeight) / 2 - 100
Radius == TruncDiv(Min(AvailableWidth, AvailableHeight), 2) - 100

\* the center of box d, relative to the canvas center
CenterOf(d) ==
    [x |-> obj[d].x + TruncDiv(obj[d].width, 2) - TruncDiv(canvasSize.width, 2),
     y |-> obj[d].y + TruncDiv(obj[d].height, 2) - TruncDiv(canvasSize.height, 2)]

CenterDistance(d, e) == Hypot(CenterOf(d).x - CenterOf(e).x, CenterOf(d).y - CenterOf(e).y)

\* 1000 * sin(pi / n), n = 1..6
SinOfHalfStep == <<0, 1000, 866, 707, 588, 500>>

\* 2 * r * sin(pi / n)
Chord(r, n) == TruncDiv(2 * r * SinOfHalfStep[n], 1000)

\* equal within the tolerance: the whole-unit model drops a fraction of each
\* coordinate, of the distance and of the chord
Matches(a, b) == Abs(a - b) <= 4

----------------------------------------------------------------------------
(* Claims about the padding of the overlap queries (SpecPadding) *)

\* the overlap test of heap elements a and b under padding p
OverlapUnder(p, a, b) ==
    IsDrawing(a) /\ IsDrawing(b) /\ FourInequalities(obj[a], obj[b], p)

\* the index pairs of the collection that overlap under padding p
PairsUnder(p) ==
    {pr \in (1..Len(elements)) \X (1..Len(elements)) :
        pr[1] < pr[2] /\ OverlapUnder(p, elements[pr[1]], elements[pr[2]])}

\* C29: checkOverlap and countOverlaps use the padding of the stored
\* configuration: it is 20 on a fresh engine, arrangeElements(elements, config)
\* and setLayoutConfig write it, no other call changes it, and after any
\* sequence of these calls a query is evaluated with that latest padding.
C29_QueriesUseStoredPadding ==
    /\ [](~configSet => config.padding = 20)
    /\ [][/\ lastOp' \in {"arrangeElements", "setLayoutConfig"}
              => config'.padding = lastArg'.padding
          /\ lastOp' \in {"arrangeElementsStored", "setLayoutStrategy",
                          "checkOverlap", "countOverlaps"}
              => config'.padding = config.padding
          /\ lastOp' = "checkOverlap"
              => query'.overlap = OverlapUnder(config.padding, query'.elem1, query'.elem2)
          /\ lastOp' = "countOverlaps"
              => query'.count = Cardinality(PairsUnder(config.padding))]_vars

\* boxes 1 and 2, still where they were built 10 units apart and reported as
\* overlapping under the padding 20 of the fresh engine, are reported apart
\* after arrangeElements on a collection of connectors stored padding 0
C29_Witness ==
    /\ Checked
    /\ query.elem1 = 1 /\ query.elem2 = 2
    /\ obj = PaddingHeap
    /\ elements = <<4>>
    /\ result.success
    /\ config.padding = 0
    /\ OverlapUnder(20, 1, 2)
    /\ query.overlap = FALSE

----------------------------------------------------------------------------
(* Claims about boxes larger than the usable area under Force (SpecForce) *)

WiderThanUsable(d) ==
    canvasSize.width - config.marginRight - obj[d].width < config.marginLeft

TallerThanUsable(d) ==
    canvasSize.height - config.marginBottom - obj[d].height < config.marginTop

\* C30: under Force a Drawing element with canvasWidth - marginRight - width <
\* marginLeft ends at exactly x = marginLeft, one with canvasHeight -
\* marginBottom - height < marginTop at exactly y = marginTop, and every
\* Drawing element of the collection ends with x >= marginLeft and
\* y >= marginTop.
C30_LowerBoundWins ==
    ForceDone
        => \A d \in CollectionDrawings :
               /\ WiderThanUsable(d) => obj[d].x = config.marginLeft
               /\ TallerThanUsable(d) => obj[d].y = config.marginTop
               /\ obj[d].x >= config.marginLeft
               /\ obj[d].y >= config.marginTop

\* box 3 is taller and box 2 wider than the usable area of the small canvas:
\* box 3 ends on the top margin with its bottom edge below the bottom margin,
\* box 2 on the left margin with its right edge beyond the right margin
C30_Witness ==
    /\ ForceDone
    /\ canvasSize = SmallCanvas
    /\ {2, 3} \subseteq CollectionDrawings
    /\ TallerThanUsable(3) /\ ~WiderThanUsable(3)
    /\ obj[3].y = config.marginTop
    /\ obj[3].y + obj[3].height > canvasSize.height - config.marginBottom
    /\ WiderThanUsable(2) /\ ~TallerThanUsable(2)
    /\ obj[2].x = config.marginLeft
    /\ obj[2].x + obj[2].width > canvasSize.width - config.marginRight

----------------------------------------------------------------------------
(* Claims about the overlaps of a Grid layout (SpecDouble) *)

\* C28: after arrangeElements with Grid, padding >= 0 and positive cell width
\* and height, countOverlaps on the same collection of pairwise distinct
\* elements, with the configuration unchanged, returns 0.
C28_GridLayoutCountsNoOverlap ==
    [][(/\ lastOp = "arrangeElements"
        /\ lastOp' = "countOverlaps"
        /\ config.strategy = "Grid"
        /\ NoRepeat(elements)
        /\ ~DblLess(config.padding, Whole(0))
        /\ DblLess(Whole(0), DblAdd(DblMaxOver(obj, GridBoxes, "width", 1), config.padding))
        /\ DblLess(Whole(0), DblAdd(DblMaxOver(obj, GridBoxes, "height", 1), config.padding)))
           => query'.count = 0]_vars

====
